---- MODULE Spec2Model ----
(***************************************************************************)
(* Model of the vin-proxy order webhook (src/unnamed/part_002): payload    *)
(* field extraction, the dedupe store and the /api/order-from-wix handler. *)
(*                                                                         *)
(* JavaScript strings are sequences of one-character strings, so that      *)
(* toUpperCase, replace, slice, trim and includes are computed and not     *)
(* assumed.  A JavaScript value is a record [t, s, e]: t is the type tag,  *)
(* s the characters of a string (or the digits of a number), e the         *)
(* Object.entries of an object or array as <<key, value>> pairs.           *)
(***************************************************************************)
EXTENDS Integers, Sequences, FiniteSets, TLC

\* ------------------------------------------------------------ characters

LowerChars == <<"a","b","c","d","e","f","g","h","i","j","k","l","m","n","o","p","q","r","s","t","u","v","w","x","y","z">>
UpperChars == <<"A","B","C","D","E","F","G","H","I","J","K","L","M","N","O","P","Q","R","S","T","U","V","W","X","Y","Z">>
DigitChars == <<"0","1","2","3","4","5","6","7","8","9">>
SpaceChars == {" ", "\t", "\n"}

Range(f) == {f[i] : i \in DOMAIN f}

\* String.prototype.toUpperCase / toLowerCase on one character
UpChar(c) ==
  IF \E i \in 1..26 : LowerChars[i] = c
    THEN UpperChars[CHOOSE i \in 1..26 : LowerChars[i] = c]
    ELSE c

LowChar(c) ==
  IF \E i \in 1..26 : UpperChars[i] = c
    THEN LowerChars[CHOOSE i \in 1..26 : UpperChars[i] = c]
    ELSE c

toUpperCase(s) == [i \in 1..Len(s) |-> UpChar(s[i])]
toLowerCase(s) == [i \in 1..Len(s) |-> LowChar(s[i])]

\* the character class [A-Z0-9] of sanitizeVin's replace
IsAZ09(c) == c \in Range(UpperChars) \cup Range(DigitChars)

\* String.prototype.slice(0, n)
slice0(s, n) == IF Len(s) <= n THEN s ELSE SubSeq(s, 1, n)

\* String.prototype.trim
RECURSIVE trimStart(_)
trimStart(s) ==
  IF s # <<>> /\ Head(s) \in SpaceChars THEN trimStart(Tail(s)) ELSE s

RECURSIVE trimEnd(_)
trimEnd(s) ==
  IF s # <<>> /\ s[Len(s)] \in SpaceChars
    THEN trimEnd(SubSeq(s, 1, Len(s) - 1))
    ELSE s

trim(s) == trimEnd(trimStart(s))

\* String.prototype.includes
includes(s, h) ==
  \E i \in 0..(Len(s) - Len(h)) : SubSeq(s, i + 1, i + Len(h)) = h

\* ------------------------------------------------------------ JS values

JUndef == [t |-> "undef", s |-> <<>>, e |-> <<>>]
JNull == [t |-> "null", s |-> <<>>, e |-> <<>>]
JStr(chars) == [t |-> "str", s |-> chars, e |-> <<>>]
JNum(digits) == [t |-> "num", s |-> digits, e |-> <<>>]
JObj(entries) == [t |-> "obj", s |-> <<>>, e |-> entries]
\* an array is its Object.entries: index keys "0", "1", ...
JArr(items) ==
  [t |-> "arr", s |-> <<>>,
   e |-> [i \in 1..Len(items) |-> << <<DigitChars[i]>>, items[i] >>]]
\* a raised TypeError, as the result of an evaluation
JThrow == [t |-> "throw", s |-> <<>>, e |-> <<>>]

\* ToBoolean
Truthy(v) ==
  CASE v.t \in {"undef", "null", "throw"} -> FALSE
    [] v.t = "str" -> v.s # <<>>
    [] v.t = "num" -> v.s # <<"0">>
    [] OTHER -> TRUE

\* typeof v === 'object'
IsObjectType(v) == v.t \in {"obj", "arr", "null"}

IsArray(v) == v.t = "arr"

\* a || b
Or(a, b) == IF Truthy(a) THEN a ELSE b

\* a || b || ... || last, over a non-empty sequence of operands
RECURSIVE OrChain(_)
OrChain(vs) ==
  IF Len(vs) = 1 THEN vs[1] ELSE Or(vs[1], OrChain(Tail(vs)))

\* o?.k on a value that is not null or undefined: own property k; a
\* primitive has none of the property names the service reads
RECURSIVE Lookup(_, _, _)
Lookup(entries, k, i) ==
  IF i > Len(entries) THEN JUndef
  ELSE IF entries[i][1] = k THEN entries[i][2]
  ELSE Lookup(entries, k, i + 1)

\* o?.k
Get(o, k) == IF o.t \in {"obj", "arr"} THEN Lookup(o.e, k, 1) ELSE JUndef

\* o?.k1?.k2?. ... along a path of keys
RECURSIVE GetPath(_, _)
GetPath(o, path) ==
  IF path = <<>> THEN o ELSE GetPath(Get(o, Head(path)), Tail(path))

\* String(v)
RECURSIVE JsString(_)
RECURSIVE JoinItems(_, _)
JoinItems(entries, i) ==
  IF i > Len(entries) THEN <<>>
  ELSE LET item == entries[i][2]
           text == IF item.t \in {"undef", "null"} THEN <<>> ELSE JsString(item)
       IN  (IF i > 1 THEN <<",">> ELSE <<>>) \o text \o JoinItems(entries, i + 1)

JsString(v) ==
  CASE v.t = "str" -> v.s
    [] v.t = "num" -> v.s
    [] v.t = "undef" -> <<"u","n","d","e","f","i","n","e","d">>
    [] v.t = "null" -> <<"n","u","l","l">>
    [] v.t = "obj" -> <<"[","o","b","j","e","c","t"," ","O","b","j","e","c","t","]">>
    [] v.t = "arr" -> JoinItems(v.e, 1)
    [] OTHER -> <<>>

\* ------------------------------------------------------------ property names

\* the property names the service reads
K ==
  [ order |-> <<"o","r","d","e","r">>,
    data |-> <<"d","a","t","a">>,
    body |-> <<"b","o","d","y">>,
    purchaseFlowId |-> <<"p","u","r","c","h","a","s","e","F","l","o","w","I","d">>,
    purchase_flow_id |-> <<"p","u","r","c","h","a","s","e","_","f","l","o","w","_","i","d">>,
    orderNumber |-> <<"o","r","d","e","r","N","u","m","b","e","r">>,
    order_number |-> <<"o","r","d","e","r","_","n","u","m","b","e","r">>,
    number |-> <<"n","u","m","b","e","r">>,
    id |-> <<"i","d">>,
    orderId |-> <<"o","r","d","e","r","I","d">>,
    lineItems |-> <<"l","i","n","e","I","t","e","m","s">>,
    line_items |-> <<"l","i","n","e","_","i","t","e","m","s">>,
    buyerInfo |-> <<"b","u","y","e","r","I","n","f","o">>,
    buyer_info |-> <<"b","u","y","e","r","_","i","n","f","o">>,
    buyerEmail |-> <<"b","u","y","e","r","E","m","a","i","l">>,
    buyer_email |-> <<"b","u","y","e","r","_","e","m","a","i","l">>,
    email |-> <<"e","m","a","i","l">>,
    contact |-> <<"c","o","n","t","a","c","t">>,
    billingInfo |-> <<"b","i","l","l","i","n","g","I","n","f","o">>,
    shippingInfo |-> <<"s","h","i","p","p","i","n","g","I","n","f","o">>,
    address |-> <<"a","d","d","r","e","s","s">>,
    contactDetails |-> <<"c","o","n","t","a","c","t","D","e","t","a","i","l","s">>,
    extendedFields |-> <<"e","x","t","e","n","d","e","d","F","i","e","l","d","s">>,
    extended_fields |-> <<"e","x","t","e","n","d","e","d","_","f","i","e","l","d","s">>,
    namespaces |-> <<"n","a","m","e","s","p","a","c","e","s">>,
    user_fields |-> <<"_","u","s","e","r","_","f","i","e","l","d","s">>,
    checkoutCustomFields |-> <<"c","h","e","c","k","o","u","t","C","u","s","t","o","m","F","i","e","l","d","s">>,
    checkout_custom_fields |-> <<"c","h","e","c","k","o","u","t","_","c","u","s","t","o","m","_","f","i","e","l","d","s">>,
    customFields |-> <<"c","u","s","t","o","m","F","i","e","l","d","s">>,
    custom_fields |-> <<"c","u","s","t","o","m","_","f","i","e","l","d","s">>,
    customTextFields |-> <<"c","u","s","t","o","m","T","e","x","t","F","i","e","l","d","s">>,
    custom_text_fields |-> <<"c","u","s","t","o","m","_","t","e","x","t","_","f","i","e","l","d","s">>,
    customTextField |-> <<"c","u","s","t","o","m","T","e","x","t","F","i","e","l","d">>,
    title |-> <<"t","i","t","l","e">>,
    name |-> <<"n","a","m","e">>,
    value |-> <<"v","a","l","u","e">> ]

\* ------------------------------------------------------------ VIN shape

VIN_SLICE_LEN == 25
VIN_MIN_LEN == 11
VIN_MAX_LEN == 17

\* sanitizeVin with .slice(1, 25) in place of .slice(0, 25)
sanitizeVin_SliceFromOne(vin) ==
  LET s == slice0(SelectSeq(toUpperCase(JsString(Or(vin, JStr(<<>>)))), IsAZ09),
                  VIN_SLICE_LEN)
  IN  JStr(IF Len(s) <= 1 THEN <<>> ELSE SubSeq(s, 2, Len(s)))

\* sanitizeVin: String(vin || '').toUpperCase().replace(/[^A-Z0-9]/g, '').slice(0, 25)
sanitizeVin(vin) ==
  JStr(slice0(SelectSeq(toUpperCase(JsString(Or(vin, JStr(<<>>)))), IsAZ09),
              VIN_SLICE_LEN))

\* isLikelyVin: the sanitized string has 11 to 17 characters
isLikelyVin(v) ==
  LET s == sanitizeVin(v).s
  IN  Len(s) >= VIN_MIN_LEN /\ Len(s) <= VIN_MAX_LEN

\* ------------------------------------------------------------ payload parser

\* extractOrderFromWixPayload: payload.order, payload.data.order, a synthetic
\* order built from order-like fields of payload.data, payload.body.order
extractOrderFromWixPayload(payload) ==
  LET d == Get(payload, K.data)
      looksOrderish ==
        \/ Truthy(Get(d, K.purchaseFlowId))
        \/ Truthy(Get(d, K.purchase_flow_id))
        \/ Truthy(Get(d, K.orderNumber))
        \/ Truthy(Get(d, K.order_number))
        \/ IsArray(Get(d, K.lineItems))
        \/ IsArray(Get(d, K.line_items))
      synthetic ==
        JObj(<< <<K.purchaseFlowId,
                  OrChain(<<Get(d, K.purchaseFlowId), Get(d, K.purchase_flow_id), JNull>>)>>,
                <<K.number,
                  OrChain(<<Get(d, K.orderNumber), Get(d, K.order_number), JNull>>)>>,
                <<K.buyerInfo,
                  Or(Get(d, K.buyerInfo),
                     IF Truthy(Get(d, K.buyerEmail))
                       THEN JObj(<< <<K.email, Get(d, K.buyerEmail)>> >>)
                       ELSE JUndef)>>,
                <<K.lineItems,
                  OrChain(<<Get(d, K.lineItems), Get(d, K.line_items), JArr(<<>>)>>)>>,
                <<K.extendedFields,
                  Or(Get(d, K.extendedFields), Get(d, K.extended_fields))>>,
                <<K.checkoutCustomFields,
                  Or(Get(d, K.checkoutCustomFields), Get(d, K.checkout_custom_fields))>>,
                <<K.customFields,
                  Or(Get(d, K.customFields), Get(d, K.custom_fields))>>,
                <<K.customTextFields,
                  Or(Get(d, K.customTextFields), Get(d, K.custom_text_fields))>> >>)
  IN  IF ~Truthy(payload) \/ ~IsObjectType(payload) THEN JNull
      ELSE IF Truthy(Get(payload, K.order)) /\ IsObjectType(Get(payload, K.order))
        THEN Get(payload, K.order)
      ELSE IF Truthy(Get(d, K.order)) /\ IsObjectType(Get(d, K.order))
        THEN Get(d, K.order)
      ELSE IF Truthy(d) /\ IsObjectType(d) /\ looksOrderish THEN synthetic
      ELSE IF Truthy(GetPath(payload, <<K.body, K.order>>))
              /\ IsObjectType(GetPath(payload, <<K.body, K.order>>))
        THEN GetPath(payload, <<K.body, K.order>>)
      ELSE JNull

\* extractPurchaseFlowId: first truthy of the flow-id / order-id places, or null
extractPurchaseFlowId(payload, order) ==
  OrChain(<< Get(payload, K.purchaseFlowId),
             Get(payload, K.purchase_flow_id),
             GetPath(payload, <<K.data, K.purchaseFlowId>>),
             GetPath(payload, <<K.data, K.purchase_flow_id>>),
             Get(order, K.purchaseFlowId),
             Get(order, K.id),
             Get(payload, K.orderId),
             GetPath(payload, <<K.data, K.orderId>>),
             GetPath(payload, <<K.data, K.id>>),
             JNull >>)

\* extractEmailFromPayload: first truthy of the conventional places, trimmed
extractEmailFromPayload(order, payload) ==
  LET e == OrChain(<< GetPath(order, <<K.buyerInfo, K.email>>),
                      GetPath(order, <<K.buyer_info, K.email>>),
                      Get(order, K.buyerEmail),
                      GetPath(payload, <<K.data, K.buyerEmail>>),
                      GetPath(payload, <<K.data, K.buyer_email>>),
                      GetPath(payload, <<K.data, K.contact, K.email>>),
                      GetPath(payload, <<K.contact, K.email>>),
                      GetPath(payload, <<K.data, K.billingInfo, K.address, K.email>>),
                      GetPath(payload, <<K.data, K.shippingInfo, K.address, K.email>>),
                      GetPath(payload, <<K.data, K.billingInfo, K.contactDetails, K.email>>),
                      GetPath(payload, <<K.data, K.email>>),
                      Get(payload, K.email),
                      JNull >>)
  IN  IF Truthy(e) THEN JStr(trim(JsString(e))) ELSE JNull

\* the key-name fragments of scanObjectForVin and of the lineItems loop
keyHits ==
  << <<"v","i","n">>, <<"f","i","n">>, <<"f","a","h","r","g","e","s","t","e","l","l">>, <<"f","a","h","r","g","e","s","t","e","l","l","n","u","m","m","e","r">>,
     <<"v","e","h","i","c","l","e"," ","i","d","e","n","t","i","f","i","c","a","t","i","o","n">>, <<"v","e","h","i","c","l","e"," ","i","d">> >>

\* the fragments of the customFields fallback loop
fallbackHits == << <<"f","i","n">>, <<"v","i","n">>, <<"f","a","h","r","g","e","s","t","e","l","l">>, <<"f","a","h","r","g","e","s","t","e","l","l","n","u","m","m","e","r">> >>

IsHinted(key, hits) == \E i \in DOMAIN hits : includes(key, hits[i])

\* the loop of scanObjectForVin from entry i on: an entry with a falsy value
\* is skipped; an entry whose trimmed String(value) passes isLikelyVin is
\* returned sanitized, under a hinted key and (second test) under any key
RECURSIVE scanEntries(_, _)
scanEntries(entries, i) ==
  IF i > Len(entries) THEN JNull
  ELSE LET k == entries[i][1]
           v == entries[i][2]
           key == toLowerCase(k)
           val == JStr(trim(JsString(v)))
       IN  IF ~Truthy(v) THEN scanEntries(entries, i + 1)
           ELSE IF IsHinted(key, keyHits) /\ isLikelyVin(val) THEN sanitizeVin(val)
           ELSE IF isLikelyVin(val) THEN sanitizeVin(val)
           ELSE scanEntries(entries, i + 1)

\* scanObjectForVin
scanObjectForVin(obj) ==
  IF ~Truthy(obj) \/ ~IsObjectType(obj) THEN JNull ELSE scanEntries(obj.e, 1)

\* one pass over a list of {title|name, value} fields from item i on
RECURSIVE scanFields(_, _, _)
scanFields(fields, hits, i) ==
  IF i > Len(fields) THEN JNull
  ELSE LET f == fields[i][2]
           title == toLowerCase(JsString(OrChain(<<Get(f, K.title), Get(f, K.name),
                                                   JStr(<<>>)>>)))
           value == Get(f, K.value)
       IN  IF ~Truthy(value) THEN scanFields(fields, hits, i + 1)
           ELSE IF IsHinted(title, hits) /\ isLikelyVin(value) THEN sanitizeVin(value)
           ELSE IF isLikelyVin(value) THEN sanitizeVin(value)
           ELSE scanFields(fields, hits, i + 1)

\* for (const li of lineItems): a line item that is null or undefined raises on
\* li.customTextFields; a customTextFields value that is no array is passed over
RECURSIVE scanLineItems(_, _)
scanLineItems(items, i) ==
  IF i > Len(items) THEN JNull
  ELSE LET li == items[i][2]
           ctf == OrChain(<<Get(li, K.customTextFields), Get(li, K.custom_text_fields),
                            Get(li, K.customTextField), JArr(<<>>)>>)
           hit == IF IsArray(ctf) THEN scanFields(ctf.e, keyHits, 1) ELSE JNull
       IN  IF li.t \in {"null", "undef"} THEN JThrow
           ELSE IF hit # JNull THEN hit
           ELSE scanLineItems(items, i + 1)

\* extractVinFromOrder: _user_fields, checkoutCustomFields, lineItems, the
\* customFields fallback, then payload.data itself
extractVinFromOrder(order, payload) ==
  LET userFields ==
        OrChain(<< GetPath(order, <<K.extendedFields, K.namespaces, K.user_fields>>),
                   GetPath(order, <<K.extended_fields, K.namespaces, K.user_fields>>),
                   JNull >>)
      fromUserFields == scanObjectForVin(userFields)
      ccf ==
        OrChain(<< Get(order, K.checkoutCustomFields),
                   Get(order, K.checkout_custom_fields),
                   GetPath(payload, <<K.data, K.checkoutCustomFields>>),
                   GetPath(payload, <<K.data, K.checkout_custom_fields>>),
                   JNull >>)
      fromCheckoutCustom == scanObjectForVin(ccf)
      lineItems ==
        OrChain(<< Get(order, K.lineItems), Get(order, K.line_items),
                   GetPath(payload, <<K.data, K.lineItems>>),
                   GetPath(payload, <<K.data, K.line_items>>),
                   JArr(<<>>) >>)
      \* a string iterates its characters, none of which has custom fields;
      \* an object or a number is not iterable
      fromLineItems ==
        IF lineItems.t = "arr" THEN scanLineItems(lineItems.e, 1)
        ELSE IF lineItems.t = "str" THEN JNull
        ELSE JThrow
      any ==
        OrChain(<< Get(order, K.customFields), Get(order, K.customTextFields),
                   Get(order, K.custom_fields), Get(order, K.custom_text_fields),
                   JArr(<<>>) >>)
      fromAny == IF IsArray(any) THEN scanFields(any.e, fallbackHits, 1) ELSE JNull
      deep == scanObjectForVin(Get(payload, K.data))
  IN  IF ~Truthy(order) THEN JNull
      ELSE IF Truthy(fromUserFields) THEN fromUserFields
      ELSE IF Truthy(fromCheckoutCustom) THEN fromCheckoutCustom
      ELSE IF fromLineItems # JNull THEN fromLineItems
      ELSE IF fromAny # JNull THEN fromAny
      ELSE IF Truthy(deep) THEN deep
      ELSE JNull

\* ------------------------------------------------------------ inputs

VIN1 == <<"W","B","A","V","A","1","2","3","4","5","A","B","6","7","8","9","0">>
VIN2 == <<"1","H","G","C","M","8","2","6","3","3","A","0","0","4","3","5","2">>
MAIL1 == <<"b","u","y","e","r","@","e","x","a","m","p","l","e",".","c","o","m">>
MAIL2 == <<"a","@","b",".","c","o","m">>
KEY1 == <<"f","l","o","w","-","1">>
NOAT == <<"n","o","b","o","d","y">>

UserFields(vinChars) ==
  JObj(<< <<K.namespaces,
            JObj(<< <<K.user_fields,
                      JObj(<< <<<<"f","a","h","r","g","e","s","t","e","l","l","n","u","m","m","e","r","_","f","i","n","_","1">>, JStr(vinChars)>> >>)>> >>)>> >>)

\* the request bodies the webhook receives in the pipeline model
\* 1: the happy-path order with an explicit flow id
\* 2: an order with the same flow id and a VIN but no email
\* 3: {order: {buyerInfo: {email}}}: no VIN anywhere, no order identifier
\* 4: an order with the same flow id whose lineItems list holds null
Bodies ==
  << JObj(<< <<K.order,
               JObj(<< <<K.purchaseFlowId, JStr(KEY1)>>,
                       <<K.buyerInfo, JObj(<< <<K.email, JStr(MAIL1)>> >>)>>,
                       <<K.extendedFields, UserFields(VIN1)>> >>)>> >>),
     JObj(<< <<K.order,
               JObj(<< <<K.purchaseFlowId, JStr(KEY1)>>,
                       <<K.extendedFields, UserFields(VIN2)>> >>)>> >>),
     JObj(<< <<K.order,
               JObj(<< <<K.buyerInfo, JObj(<< <<K.email, JStr(MAIL2)>> >>)>> >>)>> >>),
     JObj(<< <<K.order,
               JObj(<< <<K.purchaseFlowId, JStr(KEY1)>>,
                       <<K.buyerInfo, JObj(<< <<K.email, JStr(MAIL1)>> >>)>>,
                       <<K.lineItems, JArr(<<JNull>>)>> >>)>> >>) >>

\* what a request carries as <<x-webhook-secret header, ?secret= parameter>>
Credentials == {<<"s3cret", "">>, <<"", "s3cret">>, <<"wrong", "">>, <<"", "">>}

\* ------------------------------------------------------------ bounds

\* webhook deliveries in one run of the model
NumReqs == 2
\* clock advances in one run of the model
MaxTicks == 1

Reqs == 1..NumReqs

\* ------------------------------------------------------------ state

VARIABLES
  WEBHOOK_SECRET,  \* process.env.WEBHOOK_SECRET || ''
  EMAIL_ENABLED,   \* feature toggle
  PDF_ENABLED,     \* feature toggle
  now,             \* Date.now()
  ticks,           \* clock advances so far
  processed,       \* the dedupe Map: key -> expiresAt
  req,             \* the webhook runs: position, inputs, locals, effects
  xin,             \* the payload handed to the extraction on its own
  xout             \* what the extraction on its own returned

vars == <<WEBHOOK_SECRET, EMAIL_ENABLED, PDF_ENABLED, now, ticks, processed, req,
          xin, xout>>

config == <<WEBHOOK_SECRET, EMAIL_ENABLED, PDF_ENABLED>>

\* ------------------------------------------------------------ security + idempotency

\* getIncomingSecret: (h || q || '').toString()
getIncomingSecret(h, q) == IF h # "" THEN h ELSE IF q # "" THEN q ELSE ""

\* checkWebhookAuth with a request without secret let through
checkWebhookAuth_EmptyPasses(secret, h, q) ==
  IF secret = "" THEN TRUE
  ELSE getIncomingSecret(h, q) = "" \/ getIncomingSecret(h, q) = secret

\* checkWebhookAuth
checkWebhookAuth(secret, h, q) ==
  IF secret = "" THEN TRUE ELSE getIncomingSecret(h, q) = secret

DEDUPE_TTL_MS == 21600000

\* the Map without key
MapDelete(store, key) == [k \in DOMAIN store \ {key} |-> store[k]]

\* the Map with key set to exp
MapSet(store, key, exp) ==
  [k \in DOMAIN store \cup {key} |-> IF k = key THEN exp ELSE store[k]]

\* wasProcessed with the expiry test Date.now() >= exp
wasProcessed_ExpiresEarly(store, key, t) ==
  IF key \notin DOMAIN store \/ store[key] = 0 THEN [hit |-> FALSE, store |-> store]
  ELSE IF t >= store[key] THEN [hit |-> FALSE, store |-> MapDelete(store, key)]
  ELSE [hit |-> TRUE, store |-> store]

\* wasProcessed without the processed.delete(key) of the expiry branch
wasProcessed_KeepsStale(store, key, t) ==
  IF key \notin DOMAIN store \/ store[key] = 0 THEN [hit |-> FALSE, store |-> store]
  ELSE IF t > store[key] THEN [hit |-> FALSE, store |-> store]
  ELSE [hit |-> TRUE, store |-> store]

\* wasProcessed with the entry of a key that is found set anew
wasProcessed_RefreshOnHit(store, key, t) ==
  IF key \notin DOMAIN store \/ store[key] = 0 THEN [hit |-> FALSE, store |-> store]
  ELSE IF t > store[key] THEN [hit |-> FALSE, store |-> MapDelete(store, key)]
  ELSE [hit |-> TRUE, store |-> MapSet(store, key, t + DEDUPE_TTL_MS)]

\* wasProcessed: the answer and the Map afterwards (an expired entry is deleted)
wasProcessed(store, key, t) ==
  IF key \notin DOMAIN store \/ store[key] = 0 THEN [hit |-> FALSE, store |-> store]
  ELSE IF t > store[key] THEN [hit |-> FALSE, store |-> MapDelete(store, key)]
  ELSE [hit |-> TRUE, store |-> store]

\* markProcessed
markProcessed(store, key, t) == MapSet(store, key, t + DEDUPE_TTL_MS)

\* the Map key of an order key: a primitive by value, an object by identity
\* (every request body is parsed into fresh objects)
MapKey(r, v) == [v |-> v, id |-> IF v.t \in {"obj", "arr"} THEN r ELSE 0]

\* id || `unknown_${crypto.randomBytes(6).toString('hex')}`: the random suffix
\* is fresh for every call
purchaseFlowIdOf(r, id) ==
  IF Truthy(id) THEN id ELSE JStr(<<"u","n","k","n","o","w","n","_">> \o <<DigitChars[r + 1]>>)

\* ------------------------------------------------------------ the handler

\* what the handler's synchronous prefix computes from each request body:
\* order, the extracted flow id, email and raw VIN
ParseBody(payload) ==
  LET order == extractOrderFromWixPayload(payload)
  IN  [ id |-> extractPurchaseFlowId(payload, order),
        email |-> extractEmailFromPayload(order, payload),
        vinRaw |-> extractVinFromOrder(order, payload) ]

\* the extraction results for the request bodies of the pipeline model
Parsed == [b \in DOMAIN Bodies |-> ParseBody(Bodies[b])]

IdleReq ==
  [ pc |-> "idle", body |-> 0, carried |-> "", authed |-> FALSE,
    key |-> MapKey(0, JNull), email |-> JNull, vin |-> JStr(<<>>),
    code |-> 0, success |-> "", status |-> "", upstream |-> "",
    marks |-> 0, racedWith |-> {},
    alertSends |-> 0, alertAccepted |-> 0,
    buyerSends |-> 0, buyerAccepted |-> 0, buyerTo |-> JNull, attached |-> FALSE,
    decodeCalls |-> 0, checkCalls |-> 0, built |-> FALSE,
    renderCalls |-> 0, file |-> "none",
    decodeRes |-> "", renderRes |-> "", buyerRes |-> "", alertRes |-> "" ]

\* the positions at which a run waits for an outbound call
Waiting ==
  {"wManualAlert", "wDecode", "wChecks", "wFailAlert", "wPdfOffAlert",
   "wRender", "wBuyerMail", "wCatchAlert"}

\* sendMail: skipped when EMAIL_ENABLED is off, else the transport accepts or raises
MailOutcomes == IF EMAIL_ENABLED THEN {"accepted", "throw"} ELSE {"skipped"}

\* res.status(code).json({success, status, ...}): success is true in the 200
\* responses and false in the 401, 502 and 500 responses; status "" stands for
\* a body without status property
Respond(q, code, status) ==
  [q EXCEPT !.pc = "done", !.code = code, !.status = status,
            !.success = IF code = 200 THEN "true" ELSE "false"]

\* sendMail({to: ADMIN_EMAIL, ...}) is called and awaited at position pc
CallAlert(q, pc) == [q EXCEPT !.pc = pc, !.alertSends = @ + 1]

\* the catch block: sendMail to the admin inside its own try
Catch(q) == CallAlert(q, "wCatchAlert")

\* the gate without its email test
NeedsManualCheck_VinOnly(email, vin) ==
  ~Truthy(vin) \/ Len(vin.s) < VIN_MIN_LEN

\* the gate before report building: !email || !vin || vin.length < 11
NeedsManualCheck(email, vin) ==
  ~Truthy(email) \/ ~Truthy(vin) \/ Len(vin.s) < VIN_MIN_LEN

Init ==
  /\ WEBHOOK_SECRET = "s3cret"
  /\ EMAIL_ENABLED \in BOOLEAN
  /\ PDF_ENABLED \in BOOLEAN
  /\ now = 0
  /\ ticks = 0
  /\ processed = <<>>
  /\ req = [r \in Reqs |-> IdleReq]
  /\ xin = JNull
  /\ xout = JNull

\* time passes: by exactly the dedupe TTL, or by more than it
Tick ==
  /\ ticks < MaxTicks
  /\ \E d \in {DEDUPE_TTL_MS, DEDUPE_TTL_MS + 1} : now' = now + d
  /\ ticks' = ticks + 1
  /\ UNCHANGED <<config, processed, req, xin, xout>>

\* the steps of the prefix for request r carrying body b and credentials c;
\* parsed is what the extraction calls return for b
Handle(r, b, c, parsed) ==
  LET h == c[1]
      q == c[2]
      q0 == [req[r] EXCEPT !.carried = getIncomingSecret(h, q)]
      qa == [q0 EXCEPT !.body = b, !.authed = TRUE]
      key == MapKey(r, purchaseFlowIdOf(r, parsed.id))
      dd == wasProcessed(processed, key, now)
      q1 == [qa EXCEPT !.key = key]
      \* the runs for the same key that passed the dedupe check and have
      \* not marked the key yet
      inFlight == {p \in Reqs \ {r} : /\ req[p].pc \in Waiting
                                      /\ req[p].key = key
                                      /\ req[p].marks = 0}
      email == parsed.email
      vinRaw == parsed.vinRaw
      vin == IF Truthy(vinRaw) THEN sanitizeVin(vinRaw) ELSE JStr(<<>>)
      q2 == [q1 EXCEPT !.email = email, !.vin = vin, !.racedWith = inFlight]
  IN  IF ~checkWebhookAuth(WEBHOOK_SECRET, h, q)
        THEN /\ req' = [req EXCEPT ![r] =
                  Respond(q0, 401, "")]
             /\ processed' = processed
      ELSE IF dd.hit
        THEN /\ req' = [req EXCEPT ![r] = Respond(q1, 200, "duplicate_ignored")]
             /\ processed' = dd.store
      ELSE IF vinRaw = JThrow
        THEN /\ req' = [req EXCEPT ![r] = Catch([q1 EXCEPT !.email = email, !.racedWith = inFlight])]
             /\ processed' = dd.store
      ELSE IF NeedsManualCheck(email, vin)
        THEN /\ req' = [req EXCEPT ![r] =
                  CallAlert([q2 EXCEPT !.marks = @ + 1], "wManualAlert")]
             /\ processed' = markProcessed(dd.store, key, now)
      ELSE /\ req' = [req EXCEPT ![r] =
                  [q2 EXCEPT !.pc = "wDecode", !.decodeCalls = @ + 1]]
           /\ processed' = dd.store

\* POST /api/order-from-wix up to its first await: auth, order key, dedupe,
\* extraction, the VIN/email gate
Receive(r) ==
  /\ req[r].pc = "idle"
  /\ \A p \in Reqs : p < r => req[p].pc # "idle"
  /\ \E b \in DOMAIN Bodies, c \in Credentials : Handle(r, b, c, Parsed[b])
  /\ UNCHANGED <<config, now, ticks, xin, xout>>

\* the admin alert of the manual-review path returns or raises (caught, logged)
ManualAlertDone(r) ==
  /\ req[r].pc = "wManualAlert"
  /\ \E m \in MailOutcomes :
       req' = [req EXCEPT ![r] =
                 Respond([@ EXCEPT !.alertRes = m,
                                   !.alertAccepted = @ + (IF m = "accepted" THEN 1 ELSE 0)],
                         200, "needs_manual_check")]
  /\ UNCHANGED <<config, now, ticks, processed, xin, xout>>

\* the HTTP status of a decode response that makes buildPremiumReport return
\* decode_failed: 200 with a body without decode key, or a status that is not 2xx
DecodeFailStatuses == {"200", "402"}

\* buildPremiumReport: the decode call returns a decode body, returns without
\* one (or not ok), or fetch raises
DecodeDone(r) ==
  /\ req[r].pc = "wDecode"
  /\ \E o \in {"ok", "fail", "throw"}, st \in DecodeFailStatuses :
       LET q0 == [req[r] EXCEPT !.decodeRes = o,
                                !.upstream = IF o = "fail" THEN st ELSE ""]
       IN  CASE o = "ok" ->
                  /\ req' = [req EXCEPT ![r] =
                               [q0 EXCEPT !.pc = "wChecks", !.checkCalls = @ + 1]]
                  /\ processed' = processed
             [] o = "fail" ->
                  /\ req' = [req EXCEPT ![r] =
                               CallAlert([q0 EXCEPT !.marks = @ + 1], "wFailAlert")]
                  /\ processed' = markProcessed(processed, req[r].key, now)
             [] o = "throw" ->
                  /\ req' = [req EXCEPT ![r] = Catch(q0)]
                  /\ processed' = processed
  /\ UNCHANGED <<config, now, ticks, xin, xout>>

\* the stolen-check and market-value calls both return (ok or not), or fetch
\* raises in one of them; when both returned the report is built, and the
\* handler goes on to the PDF_ENABLED test
ChecksDone(r) ==
  /\ req[r].pc = "wChecks"
  /\ \E o \in {"returned", "throw"} :
       IF o = "throw"
         THEN /\ req' = [req EXCEPT ![r] = Catch(@)]
              /\ processed' = processed
       ELSE IF ~PDF_ENABLED
         THEN /\ req' = [req EXCEPT ![r] =
                   CallAlert([@ EXCEPT !.built = TRUE, !.marks = @ + 1], "wPdfOffAlert")]
              /\ processed' = markProcessed(processed, req[r].key, now)
       ELSE /\ req' = [req EXCEPT ![r] =
                   [@ EXCEPT !.built = TRUE, !.pc = "wRender", !.renderCalls = @ + 1]]
            /\ processed' = processed
  /\ UNCHANGED <<config, now, ticks, xin, xout>>

\* the admin alert of the decode_failed path returns (502) or raises (catch)
FailAlertDone(r) ==
  /\ req[r].pc = "wFailAlert"
  /\ \E m \in MailOutcomes :
       LET q0 == [req[r] EXCEPT !.alertRes = m,
                                !.alertAccepted = @ + (IF m = "accepted" THEN 1 ELSE 0)]
       IN  req' = [req EXCEPT ![r] =
                     IF m = "throw" THEN Catch(q0)
                     ELSE Respond(q0, 502, req[r].upstream)]
  /\ UNCHANGED <<config, now, ticks, processed, xin, xout>>

\* the admin notice of the PDF_ENABLED=false path returns (200) or raises (catch)
PdfOffAlertDone(r) ==
  /\ req[r].pc = "wPdfOffAlert"
  /\ \E m \in MailOutcomes :
       LET q0 == [req[r] EXCEPT !.alertRes = m,
                                !.alertAccepted = @ + (IF m = "accepted" THEN 1 ELSE 0)]
       IN  req' = [req EXCEPT ![r] =
                     IF m = "throw" THEN Catch(q0) ELSE Respond(q0, 200, "pdf_disabled")]
  /\ UNCHANGED <<config, now, ticks, processed, xin, xout>>

\* renderPdfToFile returns with the file written, or raises before or after
\* page.pdf wrote it; on success the buyer mail with the attachment is sent
RenderDone(r) ==
  /\ req[r].pc = "wRender"
  /\ \E o \in {"ok", "throw"}, f \in {"none", "written"} :
       /\ o = "ok" => f = "written"
       /\ req' = [req EXCEPT ![r] =
                    IF o = "ok"
                      THEN [@ EXCEPT !.renderRes = o, !.file = f, !.pc = "wBuyerMail",
                                     !.buyerSends = @ + 1, !.buyerTo = req[r].email,
                                     !.attached = TRUE]
                      ELSE Catch([@ EXCEPT !.renderRes = o, !.file = f])]
  /\ UNCHANGED <<config, now, ticks, processed, xin, xout>>

\* BuyerMailDone without the final markProcessed
BuyerMailDone_NoMark(r) ==
  /\ req[r].pc = "wBuyerMail"
  /\ \E m \in MailOutcomes :
       LET q0 == [req[r] EXCEPT !.buyerRes = m,
                                !.buyerAccepted = @ + (IF m = "accepted" THEN 1 ELSE 0)]
       IN  req' = [req EXCEPT ![r] =
                     IF m = "throw" THEN Catch(q0)
                     ELSE Respond([q0 EXCEPT !.file = "deleted"], 200, "sent")]
  /\ UNCHANGED <<config, now, ticks, processed, xin, xout>>

\* the buyer mail returns: unlink, markProcessed, 200 sent; or raises (catch)
BuyerMailDone(r) ==
  /\ req[r].pc = "wBuyerMail"
  /\ \E m \in MailOutcomes :
       LET q0 == [req[r] EXCEPT !.buyerRes = m,
                                !.buyerAccepted = @ + (IF m = "accepted" THEN 1 ELSE 0)]
       IN  IF m = "throw"
             THEN /\ req' = [req EXCEPT ![r] = Catch(q0)]
                  /\ processed' = processed
             ELSE /\ req' = [req EXCEPT ![r] =
                       Respond([q0 EXCEPT !.file = "deleted", !.marks = @ + 1], 200, "sent")]
                  /\ processed' = markProcessed(processed, req[r].key, now)
  /\ UNCHANGED <<config, now, ticks, xin, xout>>

\* the alert of the catch block returns or raises (swallowed): 500 either way
CatchAlertDone(r) ==
  /\ req[r].pc = "wCatchAlert"
  /\ \E m \in MailOutcomes :
       req' = [req EXCEPT ![r] =
                 Respond([@ EXCEPT !.alertAccepted = @ + (IF m = "accepted" THEN 1 ELSE 0)],
                         500, "")]
  /\ UNCHANGED <<config, now, ticks, processed, xin, xout>>

Next ==
  \/ Tick
  \/ \E r \in Reqs : Receive(r)
  \/ \E r \in Reqs : ManualAlertDone(r)
  \/ \E r \in Reqs : DecodeDone(r)
  \/ \E r \in Reqs : ChecksDone(r)
  \/ \E r \in Reqs : FailAlertDone(r)
  \/ \E r \in Reqs : PdfOffAlertDone(r)
  \/ \E r \in Reqs : RenderDone(r)
  \/ \E r \in Reqs : BuyerMailDone(r)
  \/ \E r \in Reqs : CatchAlertDone(r)

Spec == Init /\ [][Next]_vars

\* the letters a VIN never holds (part_000: /[IOQ]/)
IOQ == {"I", "O", "Q"}

LOOKS_MIN_LEN == 11
LOOKS_MAX_LEN == 25

\* looksLikeVin (part_000): falsy input is no VIN; else the trimmed, uppercased
\* string holds no I, O, Q and matches /^[A-HJ-NPR-Z0-9]{11,25}$/
looksLikeVin(str) ==
  IF ~Truthy(str) THEN FALSE
  ELSE LET s == toUpperCase(trim(JsString(str)))
       IN  /\ ~\E i \in 1..Len(s) : s[i] \in IOQ
           /\ \A i \in 1..Len(s) : IsAZ09(s[i]) /\ s[i] \notin IOQ
           /\ Len(s) >= LOOKS_MIN_LEN
           /\ Len(s) <= LOOKS_MAX_LEN

NORMALIZE_MIN_LEN == 8

\* normalizeVin (server.js): String(v || "").trim().toUpperCase(), kept when it
\* has 8 characters or more, else ""
normalizeVin(v) ==
  LET vin == toUpperCase(trim(JsString(Or(v, JStr(<<>>)))))
  IN  JStr(IF Len(vin) >= NORMALIZE_MIN_LEN THEN vin ELSE <<>>)

\* ------------------------------------------------------------ extraction on its own

\* the entries a _user_fields object is built from: a VIN under a hinted key,
\* a VIN-shaped string under a key without hint, free text, an empty value
FieldPool ==
  << <<<<"f","a","h","r","g","e","s","t","e","l","l","n","u","m","m","e","r","_","f","i","n","_","1">>, JStr(VIN1)>>,
     <<<<"n","o","t","e">>, JStr(VIN2)>>,
     <<<<"c","o","m","m","e","n","t">>, JStr(<<"b","i","t","t","e"," ","s","c","h","n","e","l","l">>)>>,
     <<<<"r","e","m","a","r","k">>, JStr(<<>>)>> >>

\* entries of one _user_fields object at most
MaxFields == 3

\* the sequences of distinct pool entries, as index sequences
FieldOrders ==
  UNION {{s \in [1..n -> DOMAIN FieldPool] :
             \A i, j \in 1..n : i # j => s[i] # s[j]} : n \in 0..MaxFields}

\* checkoutCustomFields: absent, a VIN-shaped string without hint, a hinted VIN
CheckoutVariants ==
  << JUndef,
     JObj(<< <<<<"n","o","t","e">>, JStr(VIN2)>> >>),
     JObj(<< <<<<"f","i","n">>, JStr(VIN1)>> >>) >>

ExtractInput(order, c) ==
  JObj(<< <<K.order,
            JObj(<< <<K.id, JStr(KEY1)>>,
                    <<K.buyerInfo, JObj(<< <<K.email, JStr(MAIL1)>> >>)>>,
                    <<K.extendedFields,
                      JObj(<< <<K.namespaces,
                                JObj(<< <<K.user_fields,
                                          JObj([i \in 1..Len(order) |->
                                                  FieldPool[order[i]]])>> >>)>> >>)>>,
                    <<K.checkoutCustomFields, CheckoutVariants[c]>> >>)>> >>)

NotExtracted == [done |-> FALSE, id |-> JNull, email |-> JNull, vin |-> JNull]

InitExtract ==
  /\ WEBHOOK_SECRET = "s3cret"
  /\ EMAIL_ENABLED = TRUE
  /\ PDF_ENABLED = TRUE
  /\ now = 0
  /\ ticks = 0
  /\ processed = <<>>
  /\ req = [r \in Reqs |-> IdleReq]
  /\ \E order \in FieldOrders, c \in DOMAIN CheckoutVariants :
       xin = ExtractInput(order, c)
  /\ xout = NotExtracted

\* the extraction the handler runs on a request body
Extract ==
  /\ ~xout.done
  /\ LET order == extractOrderFromWixPayload(xin)
     IN  xout' = [ done |-> TRUE,
                   id |-> extractPurchaseFlowId(xin, order),
                   email |-> extractEmailFromPayload(order, xin),
                   vin |-> extractVinFromOrder(order, xin) ]
  /\ UNCHANGED <<config, now, ticks, processed, req, xin>>

NextExtract == Extract

SpecExtract == InitExtract /\ [][NextExtract]_vars

\* ------------------------------------------------------------ VIN functions on their own

\* characters appended to a base string: letters in both cases with I, O, Q
\* among them, a digit, a separator, white space
TailChars == {"A", "i", "O", "q", "7", "-", " "}

\* appended characters at most
MaxTail == 2

Tails == UNION {[1..n -> TailChars] : n \in 0..MaxTail}

\* base strings of 0, 10, 16 and 24 VIN characters, and one as typed by hand
VinBases ==
  { <<>>,
    <<"W","B","A","V","A","1","2","3","4","5">>,
    <<"1","H","G","C","M","8","2","6","3","3","A","0","0","4","3","5">>,
    <<"W","B","A","V","A","1","2","3","4","5","1","H","G","C","M","8","2","6","3","3","A","0","0","4">>,
    <<" ","w","b","a","-","v","a","1","2","3","4","5">> }

\* the values handed to the VIN functions: strings, and what is no string
VinInputs ==
  {JStr(b \o t) : b \in VinBases, t \in Tails}
  \cup {JNull, JUndef, JNum(<<"0">>), JNum(<<"1","2","3","4","5","6","7","8","9","0","1">>), JObj(<<>>),
        JArr(<<JStr(<<"W","B","A","V","A","1">>), JStr(<<"2","3","4","5","A","B">>)>>)}

NotShaped ==
  [ calls |-> 0, vin |-> JNull, first |-> JNull, likely |-> FALSE, looks |-> FALSE,
    norm |-> JNull, normFirst |-> JNull ]

InitVin ==
  /\ WEBHOOK_SECRET = "s3cret"
  /\ EMAIL_ENABLED = TRUE
  /\ PDF_ENABLED = TRUE
  /\ now = 0
  /\ ticks = 0
  /\ processed = <<>>
  /\ req = [r \in Reqs |-> IdleReq]
  /\ xin \in VinInputs
  /\ xout = NotShaped

\* the VIN functions applied to a value
ShapeOnce ==
  /\ xout.calls = 0
  /\ xout' = [ calls |-> 1,
               vin |-> sanitizeVin(xin), first |-> sanitizeVin(xin),
               likely |-> isLikelyVin(xin), looks |-> looksLikeVin(xin),
               norm |-> normalizeVin(xin), normFirst |-> normalizeVin(xin) ]
  /\ UNCHANGED <<config, now, ticks, processed, req, xin>>

\* the normalising functions applied to their own result
ShapeAgain ==
  /\ xout.calls = 1
  /\ xout' = [xout EXCEPT !.calls = 2,
                          !.vin = sanitizeVin(xout.vin),
                          !.norm = normalizeVin(xout.norm)]
  /\ UNCHANGED <<config, now, ticks, processed, req, xin>>

NextVin == ShapeOnce \/ ShapeAgain

SpecVin == InitVin /\ [][NextVin]_vars

\* ------------------------------------------------------------ the VIN gate on its own

\* what a buyer may have typed into the VIN field: a VIN, a VIN-length string
\* with O and Q, a VIN typed with lower case and separators, strings of 10, 11
\* and 18 characters, nothing
GateVins ==
  << VIN1,
     <<"W","B","A","V","O","1","2","3","4","5","A","B","6","7","8","9","Q">>,
     <<"w","b","a","-","v","a"," ","1","2","3","4","5"," ","a","b","6","7","8","9","0">>,
     <<"W","B","A","V","A","1","2","3","4","5">>,
     <<"W","B","A","V","A","1","2","3","4","5","A">>,
     <<"W","B","A","V","A","1","2","3","4","5","A","B","6","7","8","9","0","1">>,
     <<>> >>

\* what the buyer typed as email: nothing, an address, an address with blanks
\* around it, a text without @
GateMails ==
  << <<>>, MAIL1, <<" ">> \o MAIL2 \o <<" ">>, NOAT >>

\* an order with a flow id, with or without buyer email, the typed value in
\* _user_fields under the checkout field's key or in a line item's custom text
\* field titled FIN
GatePayload(v, mail, inLineItem) ==
  JObj(<< <<K.order,
            JObj(<< <<K.purchaseFlowId, JStr(KEY1)>> >>
                 \o (IF GateMails[mail] # <<>>
                       THEN << <<K.buyerInfo, JObj(<< <<K.email, JStr(GateMails[mail])>> >>)>> >>
                       ELSE <<>>)
                 \o (IF inLineItem
                       THEN << <<K.lineItems,
                                 JArr(<< JObj(<< <<K.customTextFields,
                                                   JArr(<< JObj(<< <<K.title, JStr(<<"F","I","N">>)>>,
                                                                   <<K.value, JStr(GateVins[v])>> >>) >>)>> >>) >>)>> >>
                       ELSE << <<K.extendedFields, UserFields(GateVins[v])>> >>))>> >>)

InitGate ==
  /\ WEBHOOK_SECRET = "s3cret"
  /\ EMAIL_ENABLED \in BOOLEAN
  /\ PDF_ENABLED \in BOOLEAN
  /\ now = 0
  /\ ticks = 0
  /\ processed = <<>>
  /\ req = [r \in Reqs |-> IdleReq]
  /\ \E v \in DOMAIN GateVins, mail \in DOMAIN GateMails, inLineItem \in BOOLEAN :
       xin = GatePayload(v, mail, inLineItem)
  /\ xout = JNull

\* POST /api/order-from-wix up to its first await, on the body xin
Deliver ==
  /\ req[1].pc = "idle"
  /\ \E c \in Credentials : Handle(1, 0, c, ParseBody(xin))
  /\ UNCHANGED <<config, now, ticks, xin, xout>>

NextGate == Deliver

SpecGate == InitGate /\ [][NextGate]_vars

\* ------------------------------------------------------------ report builder

\* the property names read from the provider's responses
KP ==
  [ decode |-> <<"d","e","c","o","d","e">>, label |-> <<"l","a","b","e","l">>, value |-> <<"v","a","l","u","e">>,
    stolen |-> <<"s","t","o","l","e","n">>, status |-> <<"s","t","a","t","u","s">>, code |-> <<"c","o","d","e">>,
    error |-> <<"e","r","r","o","r">>, message |-> <<"m","e","s","s","a","g","e">>,
    balance |-> <<"b","a","l","a","n","c","e">>, price |-> <<"p","r","i","c","e">>, price_currency |-> <<"p","r","i","c","e","_","c","u","r","r","e","n","c","y">> ]

\* a raised exception as the outcome of a call
Raised == [raised |-> TRUE]

\* pick: the value of the first entry of the decode list with the label;
\* d.label raises on an entry that is null or undefined
RECURSIVE findLabel(_, _, _)
findLabel(items, label, i) ==
  IF i > Len(items) THEN JUndef
  ELSE IF items[i][2].t \in {"null", "undef"} THEN JThrow
  ELSE IF Get(items[i][2], KP.label) = JStr(label) THEN Get(items[i][2], KP.value)
  ELSE findLabel(items, label, i + 1)

pick(decodeArr, label) ==
  IF ~IsArray(decodeArr) THEN JUndef ELSE findLabel(decodeArr.e, label, 1)

\* pick(d, l1) || pick(d, l2) || ... || null
RECURSIVE pickFirst(_, _, _)
pickFirst(d, labels, i) ==
  IF i > Len(labels) THEN JNull
  ELSE LET hit == pick(d, labels[i])
       IN  IF hit = JThrow THEN JThrow
           ELSE IF Truthy(hit) THEN hit
           ELSE pickFirst(d, labels, i + 1)

\* the vehicle fields of the report and the decode labels they are picked from
VehicleLabels ==
  [ make |-> <<<<"M","a","k","e">>>>,
    model |-> <<<<"M","o","d","e","l">>>>,
    year |-> <<<<"M","o","d","e","l"," ","Y","e","a","r">>, <<"P","r","o","d","u","c","t","i","o","n"," ","Y","e","a","r">>>>,
    body |-> <<<<"B","o","d","y">>>>,
    fuel |-> <<<<"F","u","e","l"," ","T","y","p","e"," ","-"," ","P","r","i","m","a","r","y">>>>,
    transmission |-> <<<<"T","r","a","n","s","m","i","s","s","i","o","n">>>>,
    manufacturer |-> <<<<"M","a","n","u","f","a","c","t","u","r","e","r">>>>,
    plant_country |-> <<<<"P","l","a","n","t"," ","C","o","u","n","t","r","y">>>>,
    engine_ccm |-> <<<<"E","n","g","i","n","e"," ","D","i","s","p","l","a","c","e","m","e","n","t"," ","(","c","c","m",")">>>>,
    engine_code |-> <<<<"E","n","g","i","n","e"," ","C","o","d","e">>>>,
    engine_type |-> <<<<"E","n","g","i","n","e"," ","T","y","p","e">>>>,
    drive |-> <<<<"D","r","i","v","e">>>>,
    co2_g_km |-> <<<<"C","O","2"," ","E","m","i","s","s","i","o","n"," ","(","g","/","k","m",")">>>>,
    consumption_urban |-> <<<<"F","u","e","l"," ","C","o","n","s","u","m","p","t","i","o","n"," ","U","r","b","a","n"," ","(","l","/","1","0","0","k","m",")">>>>,
    doors |-> <<<<"N","u","m","b","e","r"," ","o","f"," ","D","o","o","r","s">>>>,
    seats |-> <<<<"N","u","m","b","e","r"," ","o","f"," ","S","e","a","t","s">>>>,
    length_mm |-> <<<<"L","e","n","g","t","h"," ","(","m","m",")">>>>,
    width_mm |-> <<<<"W","i","d","t","h"," ","(","m","m",")">>>>,
    height_mm |-> <<<<"H","e","i","g","h","t"," ","(","m","m",")">>>>,
    wheelbase_mm |-> <<<<"W","h","e","e","l","b","a","s","e"," ","(","m","m",")">>>>,
    weight_empty_kg |-> <<<<"W","e","i","g","h","t"," ","E","m","p","t","y"," ","(","k","g",")">>>>,
    max_weight_kg |-> <<<<"M","a","x"," ","W","e","i","g","h","t"," ","(","k","g",")">>>>,
    max_speed_kmh |-> <<<<"M","a","x"," ","S","p","e","e","d"," ","(","k","m","/","h",")">>>>,
    wheel_size |-> <<<<"W","h","e","e","l"," ","S","i","z","e">>>>,
    brakes_front |-> <<<<"F","r","o","n","t"," ","B","r","a","k","e","s">>>>,
    brake_system |-> <<<<"B","r","a","k","e"," ","S","y","s","t","e","m">>>>,
    steering_type |-> <<<<"S","t","e","e","r","i","n","g"," ","T","y","p","e">>>>,
    suspension |-> <<<<"S","u","s","p","e","n","s","i","o","n">>>> ]

\* stripInternalFields: a copy without the own properties balance, price and
\* price_currency; what is no object is returned as it is
stripInternalFields(obj) ==
  IF ~Truthy(obj) \/ ~IsObjectType(obj) THEN obj
  ELSE [obj EXCEPT !.e = SelectSeq(obj.e,
          LAMBDA kv : kv[1] \notin {KP.balance, KP.price, KP.price_currency})]

\* summarizeStolen with the status of a row compared as it is written
summarizeStolen_CaseSensitive(stolenJson) ==
  LET rows == Get(stolenJson, KP.stolen)
  IN  IF ~IsArray(rows) \/ Len(rows.e) = 0
        THEN [available |-> FALSE, status |-> "unknown", details |-> <<>>]
      ELSE IF \E i \in 1..Len(rows.e) : rows.e[i][2].t \in {"null", "undef"}
        THEN Raised
      ELSE [ available |-> TRUE,
             status |-> IF \E i \in 1..Len(rows.e) :
                             JsString(Get(rows.e[i][2], KP.status)) = <<"s","t","o","l","e","n">>
                          THEN "stolen" ELSE "not-stolen",
             details |-> [i \in 1..Len(rows.e) |->
                            [ source |-> Get(rows.e[i][2], KP.code),
                              status |-> Get(rows.e[i][2], KP.status) ]] ]

\* summarizeStolen: r.status and r.code raise on a row that is null or undefined
summarizeStolen(stolenJson) ==
  LET rows == Get(stolenJson, KP.stolen)
  IN  IF ~IsArray(rows) \/ Len(rows.e) = 0
        THEN [available |-> FALSE, status |-> "unknown", details |-> <<>>]
      ELSE IF \E i \in 1..Len(rows.e) : rows.e[i][2].t \in {"null", "undef"}
        THEN Raised
      ELSE [ available |-> TRUE,
             status |-> IF \E i \in 1..Len(rows.e) :
                             toLowerCase(JsString(Get(rows.e[i][2], KP.status))) = <<"s","t","o","l","e","n">>
                          THEN "stolen" ELSE "not-stolen",
             details |-> [i \in 1..Len(rows.e) |->
                            [ source |-> Get(rows.e[i][2], KP.code),
                              status |-> Get(rows.e[i][2], KP.status) ]] ]

\* summarizeMarketValue
summarizeMarketValue(valueJson) ==
  IF ~Truthy(valueJson) \/ Truthy(Get(valueJson, KP.error))
    THEN [ available |-> FALSE,
           reason |-> Or(Get(valueJson, KP.message), JStr(<<"n","o","_","d","a","t","a">>)),
           data |-> JUndef ]
    ELSE [available |-> TRUE, reason |-> JUndef, data |-> valueJson]

\* the bodies the provider answers with, by their text, and what JSON.parse
\* makes of each
BodyTexts ==
  [ decode_full |->
      JObj(<< <<KP.price, JNum(<<"0">>)>>,
              <<KP.price_currency, JStr(<<"E","U","R">>)>>,
              <<KP.balance, JObj(<< <<<<"A","P","I"," ","D","e","c","o","d","e">>, JNum(<<"9","9">>)>> >>)>>,
              <<KP.decode,
                JArr(<< JObj(<< <<KP.label, JStr(<<"M","a","k","e">>)>>, <<KP.value, JStr(<<"B","M","W">>)>> >>),
                        JObj(<< <<KP.label, JStr(<<"M","o","d","e","l"," ","Y","e","a","r">>)>>, <<KP.value, JNum(<<"2","0","1","1">>)>> >>),
                        JObj(<< <<KP.label, JStr(<<"N","u","m","b","e","r"," ","o","f"," ","D","o","o","r","s">>)>>, <<KP.value, JNum(<<"0">>)>> >>) >>)>> >>),
    decode_year |->
      JObj(<< <<KP.decode,
                JArr(<< JObj(<< <<KP.label, JStr(<<"P","r","o","d","u","c","t","i","o","n"," ","Y","e","a","r">>)>>, <<KP.value, JNum(<<"2","0","0","9">>)>> >>),
                        JObj(<< <<KP.label, JStr(<<"M","a","k","e">>)>>, <<KP.value, JStr(<<>>)>> >>),
                        JObj(<< <<KP.label, JStr(<<"M","a","k","e">>)>>, <<KP.value, JStr(<<"A","u","d","i">>)>> >>) >>)>>,
              <<<<"a","c","c","o","u","n","t">>, JObj(<< <<KP.balance, JNum(<<"5">>)>> >>)>> >>),
    decode_error |->
      JObj(<< <<KP.error, JStr(<<"i","n","v","a","l","i","d"," ","v","i","n">>)>> >>),
    stolen_clear |->
      JObj(<< <<KP.stolen,
                JArr(<< JObj(<< <<KP.code, JStr(<<"D","E">>)>>, <<KP.status, JStr(<<"N","o","t","-","S","t","o","l","e","n">>)>> >>) >>)>> >>),
    stolen_hit |->
      JObj(<< <<KP.stolen,
                JArr(<< JObj(<< <<KP.code, JStr(<<"D","E">>)>>, <<KP.status, JStr(<<"N","o","t","-","S","t","o","l","e","n">>)>> >>),
                        JObj(<< <<KP.code, JStr(<<"P","L">>)>>, <<KP.status, JStr(<<"S","t","o","l","e","n">>)>> >>) >>)>> >>),
    stolen_none |->
      JObj(<< <<KP.stolen, JArr(<<>>)>> >>),
    value_full |->
      JObj(<< <<KP.price, JNum(<<"0">>)>>,
              <<KP.price_currency, JStr(<<"E","U","R">>)>>,
              <<KP.balance, JObj(<< <<<<"A","P","I"," ","V","e","h","i","c","l","e"," ","M","a","r","k","e","t"," ","V","a","l","u","e">>, JNum(<<"9","8">>)>> >>)>>,
              <<<<"m","a","r","k","e","t","_","p","r","i","c","e">>, JObj(<< <<<<"p","r","i","c","e","_","a","v","g">>, JNum(<<"1","0","4","0","0">>)>> >>)>> >>),
    value_error |->
      JObj(<< <<KP.error, JNum(<<"1">>)>>, <<KP.message, JStr(<<"n","o"," ","m","a","r","k","e","t"," ","d","a","t","a">>)>> >>),
    stolen_nullrow |->
      JObj(<< <<KP.stolen, JArr(<<JNull>>)>> >>),
    json_null |-> JNull ]

\* JSON.parse(text) inside try, {} when it raises
JsonParse(text) ==
  IF text \in DOMAIN BodyTexts THEN BodyTexts[text] ELSE JObj(<<>>)

\* getJson: {ok: resp.ok, status: resp.status, json, rawText: text}
getJson(resp) ==
  [ ok |-> resp.status = "200",
    status |-> resp.status,
    json |-> JsonParse(resp.text),
    rawText |-> resp.text ]

\* what the provider answers to each action: an HTTP status and a body text
DecodeReplies ==
  { [status |-> "200", text |-> "decode_full"],
    [status |-> "200", text |-> "decode_year"],
    [status |-> "200", text |-> "decode_error"],
    [status |-> "200", text |-> "json_null"],
    [status |-> "402", text |-> "decode_full"],
    [status |-> "500", text |-> "<html>Bad Gateway</html>"] }

StolenReplies ==
  { [status |-> "200", text |-> "stolen_clear"],
    [status |-> "200", text |-> "stolen_hit"],
    [status |-> "200", text |-> "stolen_none"],
    [status |-> "200", text |-> "stolen_nullrow"],
    [status |-> "200", text |-> ""],
    [status |-> "402", text |-> "stolen_hit"],
    [status |-> "402", text |-> "stolen_nullrow"],
    [status |-> "500", text |-> "<html>Bad Gateway</html>"] }

ValueReplies ==
  { [status |-> "200", text |-> "value_full"],
    [status |-> "200", text |-> "value_error"],
    [status |-> "200", text |-> "json_null"],
    [status |-> "200", text |-> ""],
    [status |-> "402", text |-> "value_full"] }

\* checks.stolen with the stolen-check response summarized although not ok
stolenCheckOf_Unguarded(stolenR) == summarizeStolen(stolenR.json)

\* checks.stolen of the report
stolenCheckOf(stolenR) ==
  IF stolenR.ok THEN summarizeStolen(stolenR.json)
  ELSE [available |-> FALSE, status |-> "unavailable", details |-> <<>>]

\* checks.market_value of the report
marketValueOf(valueR) ==
  IF valueR.ok THEN summarizeMarketValue(valueR.json)
  ELSE [available |-> FALSE, reason |-> JStr(<<"u","n","a","v","a","i","l","a","b","l","e">>), data |-> JUndef]

\* buildPremiumReport after its three calls returned: {ok: true, report}, or
\* the exception raised while the report literal is evaluated
assembleReport(vin, email, decodeR, stolenR, valueR) ==
  LET d == Get(decodeR.json, KP.decode)
      vehicle == [f \in DOMAIN VehicleLabels |-> pickFirst(d, VehicleLabels[f], 1)]
      stolen == stolenCheckOf(stolenR)
  IN  IF (\E f \in DOMAIN VehicleLabels : vehicle[f] = JThrow) \/ stolen = Raised
        THEN Raised
        ELSE [ ok |-> TRUE,
               report |->
                 [ vin |-> sanitizeVin(vin),
                   email |-> email,
                   vehicle |-> vehicle,
                   checks |-> [stolen |-> stolen, market_value |-> marketValueOf(valueR)],
                   vin_decode_raw |-> stripInternalFields(decodeR.json) ] ]

NotBuilt ==
  [ pc |-> "decode", calls |-> <<>>, decodeR |-> Raised, stolenR |-> Raised,
    valueR |-> Raised, result |-> Raised ]

InitReport ==
  /\ WEBHOOK_SECRET = "s3cret"
  /\ EMAIL_ENABLED = TRUE
  /\ PDF_ENABLED = TRUE
  /\ now = 0
  /\ ticks = 0
  /\ processed = <<>>
  /\ req = [r \in Reqs |-> IdleReq]
  /\ xin \in {[vin |-> JStr(VIN1), email |-> JStr(MAIL1)],
              [vin |-> JStr(VIN2), email |-> JNull]}
  /\ xout = NotBuilt

\* buildPremiumReport: the decode call returns, or fetch raises
BuildDecode ==
  /\ xout.pc = "decode"
  /\ \/ \E reply \in DecodeReplies :
          LET decodeR == getJson(reply)
              q == [xout EXCEPT !.calls = Append(@, "decode"), !.decodeR = decodeR]
          IN  xout' =
                IF ~decodeR.ok \/ ~Truthy(Get(decodeR.json, KP.decode))
                  THEN [q EXCEPT !.pc = "returned",
                                 !.result = [ ok |-> FALSE, error |-> "decode_failed",
                                              status |-> decodeR.status,
                                              raw |-> decodeR.rawText ]]
                  ELSE [q EXCEPT !.pc = "stolen-check"]
     \/ xout' = [xout EXCEPT !.calls = Append(@, "decode"), !.pc = "raised"]
  /\ UNCHANGED <<config, now, ticks, processed, req, xin>>

\* the stolen-check call returns, or fetch raises
BuildStolen ==
  /\ xout.pc = "stolen-check"
  /\ \/ \E reply \in StolenReplies :
          xout' = [xout EXCEPT !.calls = Append(@, "stolen-check"),
                               !.stolenR = getJson(reply),
                               !.pc = "vehicle-market-value"]
     \/ xout' = [xout EXCEPT !.calls = Append(@, "stolen-check"), !.pc = "raised"]
  /\ UNCHANGED <<config, now, ticks, processed, req, xin>>

\* the vehicle-market-value call returns and the report is assembled, or fetch
\* raises
BuildValue ==
  /\ xout.pc = "vehicle-market-value"
  /\ \/ \E reply \in ValueReplies :
          LET valueR == getJson(reply)
              result == assembleReport(xin.vin, xin.email, xout.decodeR, xout.stolenR, valueR)
          IN  xout' = [xout EXCEPT !.calls = Append(@, "vehicle-market-value"),
                                   !.valueR = valueR,
                                   !.result = result,
                                   !.pc = IF result = Raised THEN "raised" ELSE "returned"]
     \/ xout' = [xout EXCEPT !.calls = Append(@, "vehicle-market-value"), !.pc = "raised"]
  /\ UNCHANGED <<config, now, ticks, processed, req, xin>>

NextReport == BuildDecode \/ BuildStolen \/ BuildValue

SpecReport == InitReport /\ [][NextReport]_vars

\* ------------------------------------------------------------ the secret check on its own

\* what a request may carry in the x-webhook-secret header and in ?secret=
AuthValues == {"", "s3cret", "wrong", " s3cret ", "S3CRET"}

\* String.prototype.trim on the header and secret values of this model
trimText(s) == IF s = " s3cret " THEN "s3cret" ELSE s

\* requireWebhookSecret (part_001): the status it answers with, 0 when it
\* lets the request through; it reads the header only
requireWebhookSecret(secret, h) ==
  IF secret = "" THEN 500
  ELSE IF h = "" THEN 401
  ELSE IF trimText(h) # trimText(secret) THEN 401
  ELSE 0

\* readWebhookSecretFromRequest (server.js): String(headerSecret || querySecret || "")
readWebhookSecretFromRequest(h, q) == IF h # "" THEN h ELSE IF q # "" THEN q ELSE ""

\* verifyWebhook (server.js)
verifyWebhook(secret, h, q) ==
  IF secret = "" THEN TRUE ELSE readWebhookSecretFromRequest(h, q) = secret

NotHandled == [by |-> "none", code |-> 0, passed |-> FALSE, echoed |-> FALSE]

InitAuth ==
  /\ WEBHOOK_SECRET \in {"", "s3cret"}
  /\ EMAIL_ENABLED = TRUE
  /\ PDF_ENABLED = TRUE
  /\ now = 0
  /\ ticks = 0
  /\ processed = <<>>
  /\ req = [r \in Reqs |-> IdleReq]
  /\ xin \in [h : AuthValues, q : AuthValues]
  /\ xout = NotHandled

\* POST /api/order-from-wix (part_002) up to its first await, on a request
\* with the header and query values of xin
DeliverWithSecret ==
  /\ xout.by = "none"
  /\ req[1].pc = "idle"
  /\ \E b \in DOMAIN Bodies : Handle(1, b, <<xin.h, xin.q>>, Parsed[b])
  /\ xout' = [ by |-> "order-from-wix", code |-> req'[1].code,
               passed |-> req'[1].authed, echoed |-> FALSE ]
  /\ UNCHANGED <<config, now, ticks, xin>>

\* POST /api/order-from-wix (part_001): its secret check
DeliverPart001 ==
  /\ xout.by = "none"
  /\ LET code == requireWebhookSecret(WEBHOOK_SECRET, xin.h)
     IN  xout' = [ by |-> "order-from-wix part_001", code |-> code,
                   passed |-> code = 0, echoed |-> FALSE ]
  /\ UNCHANGED <<config, now, ticks, processed, req, xin>>

\* POST /api/_debug/echo (part_002): 401 {ok: false, error}, or the headers
\* and the body
DebugEcho ==
  /\ xout.by = "none"
  /\ xout' = IF ~checkWebhookAuth(WEBHOOK_SECRET, xin.h, xin.q)
               THEN [by |-> "echo", code |-> 401, passed |-> FALSE, echoed |-> FALSE]
               ELSE [by |-> "echo", code |-> 200, passed |-> TRUE, echoed |-> TRUE]
  /\ UNCHANGED <<config, now, ticks, processed, req, xin>>

\* POST /api/_debug/echo (server.js): res.json({ok, headers, body})
DebugEchoServerJs ==
  /\ xout.by = "none"
  /\ xout' = [ by |-> "echo server.js", code |-> 200,
               passed |-> verifyWebhook(WEBHOOK_SECRET, xin.h, xin.q),
               echoed |-> TRUE ]
  /\ UNCHANGED <<config, now, ticks, processed, req, xin>>

NextAuth == DeliverWithSecret \/ DeliverPart001 \/ DebugEcho \/ DebugEchoServerJs

SpecAuth == InitAuth /\ [][NextAuth]_vars

\* ------------------------------------------------------------ the handlers of part_001 and server.js
\* One delivery to POST /api/order-from-wix as part_001 and as server.js
\* handle it. xin is the request (the secret header, and what the extraction
\* functions return for its body) with the SMTP credentials of the
\* environment, xout the run.

NotRun ==
  [ by |-> "none", pc |-> "idle", code |-> 0, status |-> "", error |-> "",
    caught |-> FALSE, alertSends |-> 0, buyerSends |-> 0, buyerTo |-> JNull,
    attached |-> FALSE, rendered |-> FALSE ]

InitVariants ==
  /\ WEBHOOK_SECRET = "s3cret"
  /\ EMAIL_ENABLED \in BOOLEAN
  /\ PDF_ENABLED \in BOOLEAN
  /\ now = 0
  /\ ticks = 0
  /\ processed = <<>>
  /\ req = [r \in Reqs |-> IdleReq]
  /\ xin \in [ h : {"s3cret", "wrong"},
               email : {JNull, JStr(MAIL1), JStr(NOAT)},
               vin : {JStr(<<>>), JStr(VIN1)},
               smtp : BOOLEAN ]
  /\ xout = NotRun

\* res.status(code).json({success, error | status})
Answer(q, code, status, error) ==
  [q EXCEPT !.pc = "done", !.code = code, !.status = status, !.error = error]

\* part_001, catch (err): console.error and 500 server_error, no mail
CatchPart001(q) == Answer([q EXCEPT !.caught = TRUE], 500, "", "server_error")

\* part_001 up to its first await: the secret, the 400 answers for a missing
\* email or VIN
ReceivePart001 ==
  /\ xout.pc = "idle"
  /\ LET q == [xout EXCEPT !.by = "part_001"]
         authErr == requireWebhookSecret(WEBHOOK_SECRET, xin.h)
     IN  xout' =
           IF authErr # 0
             THEN Answer(q, authErr, "", IF authErr = 401 THEN "unauthorized" ELSE "server_misconfig")
           ELSE IF ~Truthy(xin.email) THEN Answer(q, 400, "", "missing_email")
           ELSE IF ~Truthy(xin.vin) \/ Len(xin.vin.s) < VIN_MIN_LEN
             THEN Answer(q, 400, "", "missing_vin")
           ELSE [q EXCEPT !.pc = "wBuild"]
  /\ UNCHANGED <<config, now, ticks, processed, req, xin>>

\* part_001: buildPremiumReport returns the report, returns decode_failed, or
\* raises; with the report, the PDF_ENABLED test
BuildPart001 ==
  /\ xout.by = "part_001" /\ xout.pc = "wBuild"
  /\ \E o \in {"ok", "fail", "throw"} :
       xout' =
         IF o = "throw" THEN CatchPart001(xout)
         ELSE IF o = "fail" THEN Answer(xout, 502, "", "decode_failed")
         ELSE IF PDF_ENABLED THEN [xout EXCEPT !.pc = "wRender"]
         ELSE Answer(xout, 500, "", "pdf_disabled")
  /\ UNCHANGED <<config, now, ticks, processed, req, xin>>

\* part_001: renderPdfBuffer returns or raises; then the EMAIL_ENABLED test, and
\* sendReportEmail, which raises before sending when the mailer is not ready
RenderPart001 ==
  /\ xout.by = "part_001" /\ xout.pc = "wRender"
  /\ \E o \in {"ok", "throw"} :
       LET q == [xout EXCEPT !.rendered = TRUE]
       IN  xout' =
             IF o = "throw" THEN CatchPart001(xout)
             ELSE IF ~EMAIL_ENABLED THEN Answer(q, 500, "", "email_disabled")
             ELSE IF ~xin.smtp THEN CatchPart001(q)
             ELSE [q EXCEPT !.pc = "wMail", !.buyerSends = @ + 1,
                            !.buyerTo = xin.email, !.attached = TRUE]
  /\ UNCHANGED <<config, now, ticks, processed, req, xin>>

\* part_001: transporter.sendMail returns (200 sent) or raises
MailPart001 ==
  /\ xout.by = "part_001" /\ xout.pc = "wMail"
  /\ \E m \in {"accepted", "throw"} :
       xout' = IF m = "throw" THEN CatchPart001(xout)
               ELSE Answer(xout, 200, "sent", "")
  /\ UNCHANGED <<config, now, ticks, processed, req, xin>>

\* server.js, catch (e): console.error and 500 server_error, no mail
CatchServerJs(q) == Answer([q EXCEPT !.caught = TRUE], 500, "", "server_error")

\* server.js from "5) Mail senden" on: the customer mail goes out when
\* EMAIL_ENABLED and the mailer is ready, with the PDF attached only if there
\* is a pdfBuffer
MailStepServerJs(q) ==
  IF EMAIL_ENABLED /\ xin.smtp
    THEN [q EXCEPT !.pc = "wMail", !.buyerSends = @ + 1, !.buyerTo = xin.email,
                   !.attached = q.rendered]
    ELSE Answer(q, 200, IF EMAIL_ENABLED THEN "sent" ELSE "ok", "")

\* server.js up to its first await: the secret, the 400 answers of the email
\* and VIN tests
ReceiveServerJs ==
  /\ xout.pc = "idle"
  /\ LET q == [xout EXCEPT !.by = "server.js"]
     IN  xout' =
           IF ~verifyWebhook(WEBHOOK_SECRET, xin.h, "")
             THEN Answer(q, 401, "", "unauthorized")
           ELSE IF ~Truthy(xin.email) \/ ~includes(JsString(xin.email), <<"@">>)
             THEN Answer(q, 400, "", "email_missing")
           ELSE IF ~Truthy(xin.vin) THEN Answer(q, 400, "", "vin_missing")
           ELSE [q EXCEPT !.pc = "wDecode"]
  /\ UNCHANGED <<config, now, ticks, processed, req, xin>>

\* server.js: vincarioGet returns or raises; then the PDF_ENABLED test
DecodeServerJs ==
  /\ xout.by = "server.js" /\ xout.pc = "wDecode"
  /\ \E o \in {"ok", "throw"} :
       xout' =
         IF o = "throw" THEN CatchServerJs(xout)
         ELSE IF PDF_ENABLED THEN [xout EXCEPT !.pc = "wRender"]
         ELSE MailStepServerJs(xout)
  /\ UNCHANGED <<config, now, ticks, processed, req, xin>>

\* server.js: generatePdfBuffer returns or raises
RenderServerJs ==
  /\ xout.by = "server.js" /\ xout.pc = "wRender"
  /\ \E o \in {"ok", "throw"} :
       xout' = IF o = "throw" THEN CatchServerJs(xout)
               ELSE MailStepServerJs([xout EXCEPT !.rendered = TRUE])
  /\ UNCHANGED <<config, now, ticks, processed, req, xin>>

\* server.js: transporter.sendMail returns (200 sent) or raises
MailServerJs ==
  /\ xout.by = "server.js" /\ xout.pc = "wMail"
  /\ \E m \in {"accepted", "throw"} :
       xout' = IF m = "throw" THEN CatchServerJs(xout)
               ELSE Answer(xout, 200, "sent", "")
  /\ UNCHANGED <<config, now, ticks, processed, req, xin>>

NextVariants ==
  \/ ReceivePart001
  \/ BuildPart001
  \/ RenderPart001
  \/ MailPart001
  \/ ReceiveServerJs
  \/ DecodeServerJs
  \/ RenderServerJs
  \/ MailServerJs

SpecVariants == InitVariants /\ [][NextVariants]_vars

\* ------------------------------------------------------------ the order key on its own
\* Two deliveries of one payload that has neither VIN nor email (each run
\* marks its key before its first await), with the right secret. xin is the
\* payload; the runs are req[1] and req[2] of the pipeline model.

ORD1 == <<"1","0","0","1">>

\* the places of a payload at which a delivery carries a flow id, an order id
\* or an order number
KeyPlaces == {"purchaseFlowId", "data.purchase_flow_id", "order.id", "data.orderId",
              "data.orderNumber", "order.number"}

\* the entry <<k, v>> if the payload has it
Opt(has, k, v) == IF has THEN << <<k, v>> >> ELSE <<>>

\* the payload with the given places filled: flow-id places hold KEY1, order
\* id and number places hold ORD1
KeyPayload(has) ==
  LET order == Opt("order.id" \in has, K.id, JStr(ORD1))
               \o Opt("order.number" \in has, K.number, JStr(ORD1))
      data == Opt("data.purchase_flow_id" \in has, K.purchase_flow_id, JStr(KEY1))
              \o Opt("data.orderId" \in has, K.orderId, JStr(ORD1))
              \o Opt("data.orderNumber" \in has, K.orderNumber, JStr(ORD1))
  IN  JObj( Opt("purchaseFlowId" \in has, K.purchaseFlowId, JStr(KEY1))
            \o Opt(data # <<>>, K.data, JObj(data))
            \o Opt(order # <<>>, K.order, JObj(order)) )

InitKey ==
  /\ WEBHOOK_SECRET = "s3cret"
  /\ EMAIL_ENABLED = FALSE
  /\ PDF_ENABLED = TRUE
  /\ now = 0
  /\ ticks = 0
  /\ processed = <<>>
  /\ req = [r \in Reqs |-> IdleReq]
  /\ xin \in {KeyPayload(has) : has \in SUBSET KeyPlaces}
  /\ xout = JNull

\* the next delivery of the payload is handled up to its first await
DeliverKey ==
  /\ \E r \in Reqs :
       /\ req[r].pc = "idle"
       /\ \A p \in Reqs : p < r => req[p].pc # "idle"
       /\ Handle(r, 0, <<"s3cret", "">>, ParseBody(xin))
  /\ UNCHANGED <<config, now, ticks, xin, xout>>

NextKey == DeliverKey

SpecKey == InitKey /\ [][NextKey]_vars

\* ------------------------------------------------------------ the tree searches on their own
\* deepFindVin (part_000) and findFirstStringByKeys (part_001) on an object
\* graph that may hold cycles. xin is the graph: for every object its entries
\* in order, an entry's value being a string or a reference to an object; the
\* search starts at object 1. xout is the run, one step per turn of the
\* while loop.

MaxNodes == 2
MaxEntries == 1

Nodes == 1..MaxNodes

\* the reference to object n
Ref(n) == [t |-> "obj", s |-> <<DigitChars[n + 1]>>, e |-> <<>>]

RefId(v) == CHOOSE n \in Nodes : v = Ref(n)

\* an entry of an object: another object under "child", a VIN under "value",
\* a text that is no VIN under "VIN"
EntryKinds ==
  { <<<<"c","h","i","l","d">>, Ref(n)>> : n \in Nodes }
  \cup { <<<<"v","a","l","u","e">>, JStr(VIN1)>>,
         <<<<"V","I","N">>, JStr(<<" ","a","b","c">>)>> }

Graphs ==
  [Nodes -> UNION {[1..n -> EntryKinds] : n \in 0..MaxEntries}]

\* val[k] for a value of the graph
HeapGet(heap, val, k) ==
  IF val.t = "obj" THEN Lookup(heap[RefId(val)], k, 1) ELSE JUndef

\* the characters of /[A-HJ-NPR-Z0-9]/
IsVinChar(c) == IsAZ09(c) /\ c \notin IOQ

\* up.match(/([A-HJ-NPR-Z0-9]{17})/): the leftmost run of 17 such characters,
\* null when there is none
match17(up) ==
  LET starts == {i \in 1..(Len(up) - 16) : \A j \in i..(i + 16) : IsVinChar(up[j])}
  IN  IF starts = {} THEN JNull
      ELSE LET i == CHOOSE a \in starts : \A b \in starts : a <= b
           IN  JStr(SubSeq(up, i, i + 16))

\* extractVinStringFromAnyValue (part_000)
extractVinStringFromAnyValue(heap, val) ==
  LET inner(k) == HeapGet(heap, val, k)
      isVinText(v) == v.t = "str" /\ looksLikeVin(v)
      up == toUpperCase(val.s)
      m == match17(up)
  IN  IF val.t \in {"null", "undef"} THEN JNull
      ELSE IF val.t = "obj" /\ isVinText(inner(KP.value)) THEN sanitizeVin(inner(KP.value))
      ELSE IF val.t = "obj" /\ isVinText(inner(<<"t","e","x","t">>)) THEN sanitizeVin(inner(<<"t","e","x","t">>))
      ELSE IF val.t = "obj" /\ isVinText(inner(K.data)) THEN sanitizeVin(inner(K.data))
      ELSE IF val.t = "str" /\ m # JNull /\ looksLikeVin(m) THEN sanitizeVin(m)
      ELSE IF val.t = "str" /\ looksLikeVin(JStr(up)) THEN sanitizeVin(JStr(up))
      ELSE JNull

\* the key fragments of deepFindVin
keyHints ==
  << <<"v","i","n">>, <<"f","i","n">>, <<"f","a","h","r","g","e","s","t","e","l","l">>,
     <<"f","a","h","r","g","e","s","t","e","l","l","n","u","m","m","e","r">>,
     <<"v","e","h","i","c","l","e">> >>

\* the key names extractVinFromWixPayload passes to findFirstStringByKeys
vinKeyNames ==
  { <<"v","i","n">>, <<"f","i","n">>,
    <<"f","a","h","r","g","e","s","t","e","l","l","n","u","m","m","e","r">> }

\* what deepFindVin returns at an entry, null when it goes on
hitDeepFindVin(heap, entry) ==
  LET key == toLowerCase(entry[1])
      vin == extractVinStringFromAnyValue(heap, entry[2])
  IN  IF IsHinted(key, keyHints) /\ Truthy(vin) THEN vin
      ELSE IF Truthy(vin) THEN vin
      ELSE JNull

\* what findFirstStringByKeys returns at an entry, null when it goes on
hitFindFirst(entry) ==
  LET kl == toLowerCase(entry[1])
      v == entry[2]
  IN  IF kl \in vinKeyNames /\ v.t = "str" /\ trim(v.s) # <<>> THEN JStr(trim(v.s))
      ELSE JNull

\* the objects among the values of entries 1..n, in order: what the for loop
\* pushed before entry n + 1
RECURSIVE pushed(_, _)
pushed(entries, n) ==
  IF n = 0 THEN <<>>
  ELSE pushed(entries, n - 1)
       \o (IF entries[n][2].t = "obj" THEN <<entries[n][2]>> ELSE <<>>)

\* seen.add(cur)
seenAdd_Forgets(seen, cur) == seen

seenAdd(seen, cur) == seen \cup {cur}

NotWalked ==
  [ by |-> "none", pc |-> "idle", stack |-> <<>>, seen |-> {},
    expanded |-> [n \in Nodes |-> 0], skipped |-> 0, turns |-> 0,
    result |-> JUndef ]

InitWalk ==
  /\ WEBHOOK_SECRET = "s3cret"
  /\ EMAIL_ENABLED = TRUE
  /\ PDF_ENABLED = TRUE
  /\ now = 0
  /\ ticks = 0
  /\ processed = <<>>
  /\ req = [r \in Reqs |-> IdleReq]
  /\ xin \in Graphs
  /\ xout = NotWalked

\* const seen = new Set(); const stack = [obj]
StartWalk ==
  /\ xout.pc = "idle"
  /\ \E by \in {"deepFindVin", "findFirstStringByKeys"} :
       xout' = [xout EXCEPT !.by = by, !.pc = "loop", !.stack = <<Ref(1)>>]
  /\ UNCHANGED <<config, now, ticks, processed, req, xin>>

\* one turn of while (stack.length) of the helper named by; the loop is left
\* with an empty stack
WalkStep(by) ==
  IF xout.stack = <<>>
    THEN xout' = [xout EXCEPT !.pc = "returned", !.result = JNull]
  ELSE
    LET hit(entry) == IF by = "deepFindVin" THEN hitDeepFindVin(xin, entry)
                      ELSE hitFindFirst(entry)
        cur == xout.stack[Len(xout.stack)]
        rest == SubSeq(xout.stack, 1, Len(xout.stack) - 1)
        entries == xin[RefId(cur)]
        hits == {i \in DOMAIN entries : hit(entries[i]) # JNull}
        first == CHOOSE i \in hits : \A j \in hits : i <= j
        turn == [xout EXCEPT !.turns = @ + 1]
    IN  IF cur \in xout.seen
          THEN xout' = [turn EXCEPT !.stack = rest, !.skipped = @ + 1]
        ELSE LET q == [turn EXCEPT !.seen = seenAdd(@, cur),
                                   !.expanded[RefId(cur)] = @ + 1]
             IN  xout' =
                   IF hits # {}
                     THEN [q EXCEPT !.pc = "returned", !.result = hit(entries[first]),
                                    !.stack = rest \o pushed(entries, first - 1)]
                     ELSE [q EXCEPT !.stack = rest \o pushed(entries, Len(entries))]

StepDeepFindVin ==
  /\ xout.by = "deepFindVin" /\ xout.pc = "loop"
  /\ WalkStep("deepFindVin")
  /\ UNCHANGED <<config, now, ticks, processed, req, xin>>

StepFindFirst ==
  /\ xout.by = "findFirstStringByKeys" /\ xout.pc = "loop"
  /\ WalkStep("findFirstStringByKeys")
  /\ UNCHANGED <<config, now, ticks, processed, req, xin>>

NextWalk == StartWalk \/ StepDeepFindVin \/ StepFindFirst

SpecWalk == InitWalk /\ [][NextWalk]_vars

\* ------------------------------------------------------------ properties

Done(r) == req[r].pc = "done"

\* a run that passed authentication and the dedupe check
Processing(r) ==
  req[r].pc # "idle" /\ req[r].authed /\ req[r].status # "duplicate_ignored"

\* the step in which delivery r is received
Received(r) == req[r].pc = "idle" /\ req'[r].pc # "idle"

\* 17 characters of A-Z and 0-9 without I, O and Q
IsCanonicalVin(v) ==
  /\ v.t = "str"
  /\ Len(v.s) = 17
  /\ \A i \in 1..Len(v.s) : IsAZ09(v.s[i]) /\ v.s[i] \notin {"I", "O", "Q"}

HappyVinPath ==
  <<K.order, K.extendedFields, K.namespaces, K.user_fields, <<"f","a","h","r","g","e","s","t","e","l","l","n","u","m","m","e","r","_","f","i","n","_","1">>>>

HappyMailPath == <<K.order, K.buyerInfo, K.email>>

\* the bodies of the happy-path scenario
HappyBodies ==
  {b \in DOMAIN Bodies :
     /\ IsCanonicalVin(GetPath(Bodies[b], HappyVinPath))
     /\ GetPath(Bodies[b], HappyMailPath).t = "str"
     /\ includes(GetPath(Bodies[b], HappyMailPath).s, <<"@">>)}

\* C1: a delivery that passes authentication and whose order key has an entry
\* in the dedupe store that is not older than the TTL when the delivery starts
\* (some run marked the key and now <= mark time + 6 h) is answered 200
\* duplicate_ignored and sends no buyer email.
C1_DedupeWithinTtl ==
  [][\A r \in Reqs :
       ( /\ Received(r)
         /\ req'[r].authed
         /\ req'[r].key \in DOMAIN processed
         /\ now <= processed[req'[r].key] )
       => ( /\ req'[r].pc = "done"
            /\ req'[r].code = 200
            /\ req'[r].status = "duplicate_ignored"
            /\ req'[r].buyerSends = 0 )]_vars

\* two deliveries of the same key, the first answered sent with its mail
\* accepted, the second answered duplicate_ignored: one buyer email in total
C1_Witness ==
  \E r, p \in Reqs :
     /\ r # p
     /\ req[p].key = req[r].key
     /\ Done(p) /\ req[p].status = "sent" /\ req[p].buyerAccepted = 1
     /\ Done(r) /\ req[r].status = "duplicate_ignored" /\ req[r].buyerAccepted = 0

\* C2: when a delivery is received while another run for the same key is in
\* flight (past the dedupe check, key not yet marked), the two runs together
\* build the report at most once and send at most one buyer email.
C2_SingleFlight ==
  \A r \in Reqs : \A p \in req[r].racedWith :
     /\ ~(req[r].built /\ req[p].built)
     /\ req[r].buyerSends + req[p].buyerSends <= 1

\* C3: every authenticated, non-duplicate run that marked its key or answered
\* 200 had a buyer email or an operator alert accepted by the mail transport.
C3_NoSilentDrop ==
  \A r \in Reqs :
     (Done(r) /\ Processing(r) /\ (req[r].marks > 0 \/ req[r].code = 200))
     => req[r].buyerAccepted + req[r].alertAccepted >= 1

\* C4: an authenticated, non-duplicate run on a happy-path body for which the
\* provider calls, the PDF rendering and the buyer mail all succeeded has
\* extracted exactly the VIN and email of the body, has sent exactly one mail,
\* with the PDF attached, to exactly that address, has marked the key and has
\* answered 200 {success: true, status: "sent"}.
C4_HappyPath ==
  \A r \in Reqs :
     ( /\ Done(r)
       /\ Processing(r)
       /\ req[r].body \in HappyBodies
       /\ req[r].decodeRes = "ok"
       /\ req[r].built
       /\ req[r].renderRes = "ok"
       /\ req[r].buyerRes = "accepted" )
     => ( /\ req[r].vin = GetPath(Bodies[req[r].body], HappyVinPath)
          /\ req[r].email = GetPath(Bodies[req[r].body], HappyMailPath)
          /\ req[r].buyerSends = 1
          /\ req[r].buyerAccepted = 1
          /\ req[r].buyerTo = GetPath(Bodies[req[r].body], HappyMailPath)
          /\ req[r].attached
          /\ req[r].marks = 1
          /\ req[r].code = 200
          /\ req[r].status = "sent" )

C4_Witness ==
  \E r \in Reqs :
     /\ Done(r)
     /\ req[r].body \in HappyBodies
     /\ req[r].buyerRes = "accepted"
     /\ req[r].status = "sent"
     /\ req[r].vin = JStr(VIN1)
     /\ req[r].buyerTo = JStr(MAIL1)

\* no email, or no VIN, comes out of the extraction of body b
NothingExtracted(b) ==
  /\ Parsed[b].vinRaw # JThrow
  /\ ~Truthy(Parsed[b].email) \/ ~Truthy(Parsed[b].vinRaw)

BadSecret(r) ==
  req[r].pc # "idle" /\ WEBHOOK_SECRET # "" /\ req[r].carried # WEBHOOK_SECRET

\* C6: with a shared secret configured, a request that carries no secret or a
\* non-matching one is answered 401, and its run leaves the dedupe store as it
\* was, sends no operator alert and no buyer email and calls neither the
\* provider nor the renderer.
C6_AuthFailureNoEffects ==
  /\ [](\A r \in Reqs :
          BadSecret(r)
          => ( /\ Done(r) /\ req[r].code = 401
               /\ req[r].marks = 0
               /\ req[r].alertSends = 0
               /\ req[r].buyerSends = 0
               /\ req[r].decodeCalls = 0
               /\ req[r].checkCalls = 0
               /\ req[r].renderCalls = 0 ))
  /\ [][\A r \in Reqs :
          (Received(r) /\ WEBHOOK_SECRET # "" /\ req'[r].carried # WEBHOOK_SECRET)
          => processed' = processed]_vars

\* a request without secret was answered 401 while the store held an entry
C6_Witness ==
  \E r \in Reqs :
     /\ BadSecret(r) /\ req[r].carried = "" /\ req[r].code = 401
     /\ DOMAIN processed # {}

\* C7: a run that answers 5xx (502 or 500) has not marked its order key.
C7_NoMarkOnRetryable ==
  \A r \in Reqs :
     (Done(r) /\ req[r].code \in {500, 502}) => req[r].marks = 0

\* C8: a run sends at most one operator alert and at most one buyer email.
C8_SideEffectBound ==
  \A r \in Reqs : req[r].alertSends <= 1 /\ req[r].buyerSends <= 1

\* C9: a delivery that passes authentication and whose key has an expired
\* entry in the dedupe store (now > expiresAt) is not answered
\* duplicate_ignored but goes on with extraction and the pipeline, and the
\* stale entry is gone from the store after the check: the key is absent, or
\* freshly marked by this very run.
C9_DedupeExpiry ==
  [][\A r \in Reqs :
       ( /\ Received(r)
         /\ req'[r].authed
         /\ req'[r].key \in DOMAIN processed
         /\ now > processed[req'[r].key] )
       => ( /\ req'[r].status # "duplicate_ignored"
            /\ req'[r].pc \in Waiting
            /\ \/ req'[r].key \notin DOMAIN processed'
               \/ /\ req'[r].marks = 1
                  /\ processed'[req'[r].key] = now + DEDUPE_TTL_MS )]_vars

\* a run marked the key, and after the TTL a second delivery of the key waits
\* for the decode call while the store holds no entry for the key
C9_Witness ==
  \E r, p \in Reqs :
     /\ r # p
     /\ req[p].key = req[r].key
     /\ Done(p) /\ req[p].marks = 1
     /\ req[r].pc = "wDecode"
     /\ now > DEDUPE_TTL_MS
     /\ req[r].key \notin DOMAIN processed

\* the strings held under a key with a hint fragment, anywhere in the value
RECURSIVE HintedStrings(_)
HintedStrings(v) ==
  UNION { (IF IsHinted(toLowerCase(v.e[i][1]), keyHits) /\ v.e[i][2].t = "str"
             THEN {v.e[i][2]} ELSE {})
          \cup HintedStrings(v.e[i][2]) : i \in DOMAIN v.e }

\* C10: when the payload holds a VIN under a key with a hint fragment, VIN
\* extraction returns exactly that VIN, whatever VIN-shaped strings stand
\* elsewhere in the payload.
C10_HintedKeyPrecedence ==
  (xout.done /\ \E v \in HintedStrings(xin) : IsCanonicalVin(v))
  => xout.vin \in {v \in HintedStrings(xin) : IsCanonicalVin(v)}

\* characters A-Z and 0-9 without I, O and Q, 11 to 17 of them
IsAcceptedVin(v) ==
  /\ v.t = "str"
  /\ Len(v.s) >= 11 /\ Len(v.s) <= 17
  /\ \A i \in 1..Len(v.s) : IsAZ09(v.s[i]) /\ v.s[i] \notin {"I", "O", "Q"}

\* C11: every VIN with which a run calls the decode provider consists of
\* characters A-Z and 0-9 without I, O and Q and has 11 to 17 characters; a run
\* that extracted anything else calls no provider and is in manual review.
C11_AcceptedVin ==
  \A r \in Reqs :
     /\ req[r].decodeCalls > 0 => IsAcceptedVin(req[r].vin)
     /\ (Processing(r) /\ ~IsAcceptedVin(req[r].vin))
          => (req[r].decodeCalls = 0 /\ req[r].pc = "wManualAlert")

\* C12: for every string that holds the letter I, O or Q, whatever its length,
\* the VIN-shape predicates isLikelyVin and looksLikeVin both answer false.
C12_ExcludesIOQ ==
  ( /\ xout.calls >= 1
    /\ xin.t = "str"
    /\ \E i \in 1..Len(xin.s) : xin.s[i] \in IOQ )
  => (~xout.likely /\ ~xout.looks)

\* the property names that occur anywhere in a value
RECURSIVE KeysIn(_)
KeysIn(v) ==
  IF v.t = "obj"
    THEN UNION {{v.e[i][1]} \cup KeysIn(v.e[i][2]) : i \in DOMAIN v.e}
  ELSE IF v.t = "arr"
    THEN UNION {KeysIn(v.e[i][2]) : i \in DOMAIN v.e}
  ELSE {}

BillingNames == {KP.balance, KP.price, KP.price_currency}

\* C13: a report returned by buildPremiumReport holds no property named
\* balance, price or price_currency: not in vin_decode_raw, at top level or
\* nested, and not in checks.market_value.data.
C13_NoBillingFields ==
  (xout.pc = "returned" /\ xout.result.ok)
  => /\ KeysIn(xout.result.report.vin_decode_raw) \cap BillingNames = {}
     /\ KeysIn(xout.result.report.checks.market_value.data) \cap BillingNames = {}

\* the value of the first entry of the decode list d that carries the label
FirstWith(d, label) ==
  LET idx == {i \in DOMAIN d.e : Get(d.e[i][2], KP.label) = JStr(label)}
  IN  IF idx = {} THEN JUndef
      ELSE Get(d.e[CHOOSE i \in idx : \A j \in idx : i <= j][2], KP.value)

\* what the decode list d holds for a vehicle field: the first truthy value
\* among the field's labels, null when there is none
DecodeDataFor(d, f) ==
  LET labels == VehicleLabels[f]
      truthy == {k \in DOMAIN labels : Truthy(FirstWith(d, labels[k]))}
  IN  IF truthy = {} THEN JNull
      ELSE FirstWith(d, labels[CHOOSE k \in truthy : \A j \in truthy : k <= j])

\* C14: when the decode call succeeded and the stolen-check call returned
\* ok:false, buildPremiumReport returns ok:true with checks.stolen.available
\* false and status unavailable and with every vehicle field holding what the
\* decode data says; when the market-value call returned ok:false the report
\* has market_value {available: false, reason: 'unavailable'}.
C14_ChecksBestEffort ==
  (Len(xout.calls) = 3 /\ xout.valueR # Raised)
  => /\ ~xout.stolenR.ok
          => /\ xout.pc = "returned"
             /\ xout.result.ok
             /\ ~xout.result.report.checks.stolen.available
             /\ xout.result.report.checks.stolen.status = "unavailable"
             /\ \A f \in DOMAIN VehicleLabels :
                   xout.result.report.vehicle[f]
                     = DecodeDataFor(Get(xout.decodeR.json, KP.decode), f)
     /\ (~xout.valueR.ok /\ xout.pc = "returned")
          => /\ xout.result.ok
             /\ ~xout.result.report.checks.market_value.available
             /\ xout.result.report.checks.market_value.reason = JStr(<<"u","n","a","v","a","i","l","a","b","l","e">>)

\* a report for the BMW decode body was returned after the stolen-check call
\* answered 402 with a body that lists a theft, and the market-value call 402
C14_Witness ==
  /\ xout.pc = "returned"
  /\ Len(xout.calls) = 3
  /\ xout.decodeR.rawText = "decode_full"
  /\ xout.stolenR.status = "402" /\ xout.stolenR.rawText = "stolen_hit"
  /\ xout.valueR.status = "402"
  /\ xout.result.ok
  /\ xout.result.report.vehicle.make = JStr(<<"B","M","W">>)
  /\ xout.result.report.vehicle.doors = JNull
  /\ xout.result.report.checks.stolen.status = "unavailable"

\* buildPremiumReport on a decode response that is not ok or has no decode
\* key: decode_failed with the upstream status and raw body, no further call
DecodeFailedEndsAssembly ==
  (xout.pc # "decode" /\ xout.decodeR # Raised
     /\ (xout.decodeR.status # "200" \/ KP.decode \notin KeysIn(xout.decodeR.json)))
  => /\ xout.pc = "returned"
     /\ xout.calls = <<"decode">>
     /\ xout.result = [ ok |-> FALSE, error |-> "decode_failed",
                        status |-> xout.decodeR.status, raw |-> xout.decodeR.rawText ]

\* C15: a webhook request that carries the configured secret in ?secret= and
\* no header is authenticated, by the same rule as a request that carries a
\* value in the x-webhook-secret header only (authenticated exactly when the
\* value is the secret); with no secret configured every request is
\* authenticated.
C15_SecretTransport ==
  xout.by \in {"order-from-wix", "order-from-wix part_001"}
  => /\ WEBHOOK_SECRET = "" => xout.passed
     /\ (WEBHOOK_SECRET # "" /\ xin.h = "") => (xout.passed <=> xin.q = WEBHOOK_SECRET)
     /\ (WEBHOOK_SECRET # "" /\ xin.q = "") => (xout.passed <=> xin.h = WEBHOOK_SECRET)

\* the request passes the shared-secret check of the webhook
PassesSecretCheck ==
  \/ WEBHOOK_SECRET = ""
  \/ (IF xin.h # "" THEN xin.h ELSE xin.q) = WEBHOOK_SECRET

\* C17: the debug echo endpoint returns the received headers and body only to
\* a request that passes the shared-secret check of the webhook; a request
\* that fails the check gets neither.
C17_EchoGated ==
  (xout.by \in {"echo", "echo server.js"} /\ xout.echoed) => PassesSecretCheck

\* C18: for every input (a string, null, undefined or another value) applying
\* the VIN normalisation to its own result returns that result: sanitizeVin
\* (uppercase, strip outside A-Z0-9, truncate to 25) and normalizeVin alike.
C18_NormalizeIdempotent ==
  xout.calls = 2 => (xout.vin = xout.first /\ xout.norm = xout.normFirst)

\* a hand-typed string of more than 25 characters with lower case, separators
\* and white space was normalised twice, and so was null
C18_Witness ==
  /\ xout.calls = 2
  /\ \/ /\ xin = JStr(<<"W","B","A","V","A","1","2","3","4","5","1","H","G","C","M","8","2","6","3","3","A","0","0","4">> \o <<"q","-">>)
        /\ xout.vin = JStr(<<"W","B","A","V","A","1","2","3","4","5","1","H","G","C","M","8","2","6","3","3","A","0","0","4","Q">>)
     \/ /\ xin = JStr(<<" ","w","b","a","-","v","a","1","2","3","4","5">> \o <<"7"," ">>)
        /\ xout.vin = JStr(<<"W","B","A","V","A","1","2","3","4","5","7">>)
        /\ xout.norm = JStr(<<"W","B","A","-","V","A","1","2","3","4","5","7">>)

\* the status values of the response taxonomy
StatusTaxonomy ==
  {"sent", "duplicate_ignored", "needs_manual_check", "pdf_disabled", "failed"}

\* C16: every response of the order webhook, the 401, 502 and 500 responses
\* included, carries a boolean success property and a status property whose
\* value is one of sent, duplicate_ignored, needs_manual_check, pdf_disabled
\* and failed.
C16_ResponseTaxonomy ==
  \A r \in Reqs :
     Done(r) => ( /\ req[r].success \in {"true", "false"}
                  /\ req[r].status \in StatusTaxonomy )

\* the counters of a run that made no call and sent no mail
NoAction(q) ==
  /\ q.marks = 0
  /\ q.alertSends = 0
  /\ q.buyerSends = 0
  /\ q.decodeCalls = 0
  /\ q.checkCalls = 0
  /\ q.renderCalls = 0

\* C19: a delivery answered duplicate_ignored leaves the dedupe store as it
\* was (the expiry of the entry is not extended), and its run calls neither
\* the provider nor the renderer, sends no mail and marks nothing: the dedupe
\* check stands before every provider call.
C19_DuplicateNoAction ==
  /\ [](\A r \in Reqs :
          req[r].status = "duplicate_ignored"
          => Done(r) /\ req[r].code = 200 /\ NoAction(req[r]))
  /\ [][\A r \in Reqs :
          (Received(r) /\ req'[r].status = "duplicate_ignored")
          => processed' = processed]_vars

\* a duplicate was answered after time had passed since the mark, and the
\* entry still expires one TTL after the mark
C19_Witness ==
  \E r \in Reqs :
     /\ req[r].status = "duplicate_ignored"
     /\ now > 0
     /\ req[r].key \in DOMAIN processed
     /\ processed[req[r].key] = DEDUPE_TTL_MS

\* C20: a run whose decode call returned without decode data calls neither
\* the stolen check nor the market value, builds no report and renders
\* nothing, marks its key once, sends exactly one operator alert and no buyer
\* email, and answers with a failure response.
C20_MandatoryDecode ==
  \A r \in Reqs :
     req[r].decodeRes = "fail"
     => ( /\ req[r].decodeCalls = 1
          /\ req[r].checkCalls = 0
          /\ ~req[r].built
          /\ req[r].renderCalls = 0
          /\ req[r].buyerSends = 0
          /\ req[r].marks = 1
          /\ req[r].alertSends = 1
          /\ Done(r) => (req[r].code \in {500, 502} /\ req[r].success = "false") )

\* the result records of the provider calls made so far
CallResults ==
  << xout.decodeR, xout.stolenR, xout.valueR >>

\* C21: the provider client never raises: every call that buildPremiumReport
\* made has returned a result record, with ok false when the status is not
\* 2xx and with json = {} when the body is not JSON, so that no failing call
\* ends the assembly with an exception.
C21_ClientNeverRaises ==
  \A i \in 1..Len(xout.calls) :
     /\ CallResults[i] # Raised
     /\ CallResults[i].status # "200" => ~CallResults[i].ok
     /\ CallResults[i].rawText \notin DOMAIN BodyTexts => CallResults[i].json = JObj(<<>>)

\* C22: an exception raised during a webhook run is caught at the handler
\* boundary: the run then sends the operator an alert and answers 500 (also
\* when the alert send fails), and mails nothing to the buyer.
C22_ErrorsContained ==
  xout.caught
  => ( /\ xout.pc = "done"
       /\ xout.code = 500
       /\ xout.alertSends = 1 )

\* the handler of part_002 contains its exceptions: a raising provider call,
\* render or buyer mail leads to the alert of the catch block, and from there
\* the run answers 500 whatever the alert send does, with no further buyer mail
ErrorsContainedPart002 ==
  /\ [](\A r \in Reqs :
          ( \/ req[r].decodeRes = "throw"
            \/ req[r].renderRes = "throw"
            \/ req[r].buyerRes = "throw"
            \/ (Done(r) /\ req[r].code = 500) )
          => ( /\ req[r].pc = "wCatchAlert" \/ (Done(r) /\ req[r].code = 500)
               /\ req[r].alertSends >= 1 ))
  /\ [][\A r \in Reqs :
          (req[r].pc = "wCatchAlert" /\ req'[r] # req[r])
          => ( /\ req'[r].pc = "done"
               /\ req'[r].code = 500
               /\ req'[r].buyerSends = req[r].buyerSends )]_vars

\* C23: a buyer email is sent only after the PDF was rendered and always
\* carries it as attachment: a run whose render raised, or with PDF
\* generation disabled, sends no buyer email.
C23_NoDeliveryWithoutPdf ==
  xout.buyerSends > 0 => (xout.rendered /\ xout.attached)

\* the handler of part_002 sends the buyer mail only after renderPdfToFile
\* returned, with the file attached, and never with PDF_ENABLED off
NoDeliveryWithoutPdfPart002 ==
  \A r \in Reqs :
     req[r].buyerSends > 0
     => ( /\ PDF_ENABLED
          /\ req[r].renderRes = "ok"
          /\ req[r].attached )

\* the payload carries an explicit flow identifier
HasFlowId(payload) ==
  \/ Truthy(Get(payload, K.purchaseFlowId))
  \/ Truthy(GetPath(payload, <<K.data, K.purchase_flow_id>>))

\* the payload carries an order id or an order number
HasOrderNumber(payload) ==
  \/ Truthy(GetPath(payload, <<K.order, K.id>>))
  \/ Truthy(GetPath(payload, <<K.order, K.number>>))
  \/ Truthy(GetPath(payload, <<K.data, K.orderId>>))
  \/ Truthy(GetPath(payload, <<K.data, K.orderNumber>>))

\* the runs that were received
Delivered == {r \in Reqs : req[r].pc # "idle"}

\* C24: the order key is the flow identifier if the payload has one, else its
\* order number or id, and only without any of them a fresh 'unknown_' key:
\* two deliveries of a payload with an identifier get the same key and the
\* later one is answered duplicate_ignored, and deliveries without any
\* identifier get different keys and are no duplicates of each other.
C24_OrderKeyDerivation ==
  \A r \in Delivered :
     /\ HasFlowId(xin) => req[r].key.v = JStr(KEY1)
     /\ (~HasFlowId(xin) /\ HasOrderNumber(xin)) => req[r].key.v = JStr(ORD1)
     /\ \A p \in Delivered :
          p < r =>
            IF HasFlowId(xin) \/ HasOrderNumber(xin)
              THEN req[p].key = req[r].key /\ req[r].status = "duplicate_ignored"
              ELSE req[p].key # req[r].key /\ req[r].status # "duplicate_ignored"

\* C25: extraction never throws: for every request body that passed
\* authentication and the dedupe check, VIN extraction returns without
\* raising, and a run whose email or VIN was not recovered takes the
\* manual-review path, never the catch block with its 500 answer.
C25_ExtractionNeverThrows ==
  \A r \in Reqs :
     Processing(r)
     => ( /\ Parsed[req[r].body].vinRaw # JThrow
          /\ (~Truthy(req[r].email) \/ ~Truthy(req[r].vin))
             => ( /\ req[r].pc = "wManualAlert" \/ Done(r)
                  /\ Done(r) => (req[r].code = 200 /\ req[r].status = "needs_manual_check") ) )

\* a trimmed, non-empty string that contains @
IsValidEmail(e) ==
  /\ e.t = "str"
  /\ e.s # <<>>
  /\ trim(e.s) = e.s
  /\ includes(e.s, <<"@">>)

\* C26: the email with which a run goes on to report building is a trimmed,
\* non-empty string containing '@'; a run whose extracted email has no '@'
\* takes the manual-review path.
C26_EmailGate ==
  \A r \in Reqs :
     /\ req[r].decodeCalls > 0 => IsValidEmail(req[r].email)
     /\ (Processing(r) /\ ~IsValidEmail(req[r].email)) => req[r].pc = "wManualAlert"

\* C27: every PDF file that a run wrote to the reports directory is deleted
\* again when the run has answered, on every path through the handler, the
\* one where the buyer mail raises after the render included.
C27_EphemeralPdf ==
  \A r \in Reqs : Done(r) => req[r].file # "written"

\* the market-value response is empty: null, or the {} that getJson puts in
\* the place of a body that is no JSON
IsEmptyJson(j) == ~Truthy(j) \/ j = JObj(<<>>)

\* C28: in a report built from a market-value call that answered 2xx, the
\* market-value summary is available:false with a reason string whenever the
\* response is empty ({} included) or flags an error, and available:true with
\* the response passed through as data otherwise.
C28_MarketValueSummary ==
  (xout.pc = "returned" /\ xout.result.ok /\ xout.valueR.ok)
  => LET j == xout.valueR.json
         mv == xout.result.report.checks.market_value
     IN  IF IsEmptyJson(j) \/ Truthy(Get(j, KP.error))
           THEN ~mv.available /\ mv.reason.t = "str"
           ELSE mv.available /\ mv.data = j

\* the records of a stolen-check response: the items of its stolen list
StolenRecords(j) ==
  LET rows == Get(j, KP.stolen)
  IN  IF IsArray(rows) THEN [i \in 1..Len(rows.e) |-> rows.e[i][2]] ELSE <<>>

\* C29: in a report built from a stolen-check call that answered 2xx, the
\* summary status is 'stolen' iff a record's status is 'stolen' in any
\* letter case, else 'not-stolen' iff there is a record, else 'unknown' with
\* available:false and no details; details holds one {source, status} entry
\* per record, in the order of the records.
C29_StolenSummary ==
  (xout.pc = "returned" /\ xout.result.ok /\ xout.stolenR.ok)
  => LET recs == StolenRecords(xout.stolenR.json)
         sum == xout.result.report.checks.stolen
         hit == \E i \in DOMAIN recs :
                   toLowerCase(JsString(Get(recs[i], KP.status))) = <<"s","t","o","l","e","n">>
     IN  /\ (sum.status = "stolen") <=> hit
         /\ (sum.status = "not-stolen") <=> (~hit /\ Len(recs) >= 1)
         /\ (sum.status = "unknown") <=> (Len(recs) = 0)
         /\ sum.available <=> (Len(recs) >= 1)
         /\ Len(sum.details) = Len(recs)
         /\ \A i \in DOMAIN recs :
               sum.details[i] = [ source |-> Get(recs[i], KP.code),
                                  status |-> Get(recs[i], KP.status) ]

\* a report was returned whose stolen-check response lists two records, the
\* second with status 'Stolen'
C29_Witness ==
  /\ xout.pc = "returned"
  /\ xout.result.ok
  /\ xout.stolenR.ok
  /\ xout.stolenR.rawText = "stolen_hit"
  /\ xout.result.report.checks.stolen.status = "stolen"
  /\ Len(xout.result.report.checks.stolen.details) = 2

\* C30: deepFindVin and findFirstStringByKeys return on every finite object
\* graph, cyclic ones included, and expand (iterate the entries of) each
\* object at most once: a run pops at most the start object and one value per
\* entry of the graph, after which its stack is empty and the loop is left.
C30_CycleSafe ==
  /\ \A n \in Nodes : xout.expanded[n] <= 1
  /\ xout.turns <= 1 + MaxNodes * MaxEntries
  /\ xout.turns = 1 + MaxNodes * MaxEntries => xout.stack = <<>>

\* a search returned null on a graph in which object 1 refers to object 2 and
\* object 2 back to object 1, after it passed over an object already seen
C30_Witness ==
  /\ xout.pc = "returned"
  /\ xout.result = JNull
  /\ \E i \in DOMAIN xin[1] : xin[1][i][2] = Ref(2)
  /\ \E i \in DOMAIN xin[2] : xin[2][i][2] = Ref(1)
  /\ xout.skipped >= 1
  /\ xout.expanded = [n \in Nodes |-> IF n <= 2 THEN 1 ELSE xout.expanded[n]]

====
